---- MODULE Spec2Model ----
(***************************************************************************)
(* Event-driven clinical-audio pipeline of shoki-ai: the orchestrator      *)
(* (services/orchestrator_service/main.py), the stage workers              *)
(* (services/*_service/src/routers/events.py) and the state they share:    *)
(* Firestore run/step documents, Pub/Sub topics, Cloud Tasks queues and    *)
(* the artifact buckets.                                                   *)
(***************************************************************************)
EXTENDS Integers, Sequences, FiniteSets, TLC

\* ------------------------------------------------------------------ bounds
MaxCalls == 2      \* POST /run calls
MaxHandlers == 1   \* concurrent POST /events/pubsub handlers of the orchestrator
MaxInject == 1     \* events pushed to the orchestrator by something other than a worker
MaxPush == 2       \* POST /pubsub/push requests served by the gateway
TextLen == 3       \* characters of a transcript given to the masking
MaxSpans == 2      \* detections given to the masking
MaxAuditLen == 2   \* characters of a transcript given to POST /audit
MaxDeliver == 3    \* events the subscription delivers to the orchestrator on its own
MaxExecs == 2      \* executions of one stage task that overlap
MaxNotes == 2      \* notifications followed through their redeliveries
MaxRedeliver == 4  \* attempt_count up to which a notification is delivered again
MaxRetries == 2    \* largest max_retries setting of a retry loop
MaxInside == 3     \* handlers of one gateway process at the guard of the orchestrator call

\* --------------------------------------------------------------- constants
None == "None"

StageSeq == <<"transcribe", "redact", "audit", "soap">>
Stages == {StageSeq[k] : k \in 1..Len(StageSeq)}

\* TOPICS of the orchestrator: the stages it can publish a request for
TOPICS == {"transcribe", "redact", "audit", "soap"}

\* stages that have a push-receiver / task-executor service
WorkerStages == {"transcribe", "redact", "audit"}

\* RunCreate bodies used as inputs: one object, its optional session absent or empty
Inputs ==
    { [bucket |-> "B", name |-> "a.wav", generation |-> "1", session_id |-> s] :
        s \in {None, ""} }

OrEmpty(x) == IF x = None THEN "" ELSE x

\* sha256 is taken as injective: the key is the string that is hashed
idempotency_key_for(bucket, name, generation, session_id) ==
    bucket \o "/" \o name \o "@" \o OrEmpty(generation) \o "|" \o OrEmpty(session_id)

RunIdOf(i) == idempotency_key_for(i.bucket, i.name, i.generation, i.session_id)

RunIds == {RunIdOf(i) : i \in Inputs}


\* gateway setting orch_max_retries; the retry loop makes max(1, orch_max_retries + 1) attempts
orch_max_retries == 1

Max(a, b) == IF a >= b THEN a ELSE b

max_attempts == Max(1, orch_max_retries + 1)

\* object-upload notifications: one object, uploaded without and with a session
Notes ==
    { [bucket |-> "B", name |-> "a.wav", generation |-> "1", session_id |-> s] :
        s \in {None, "s1"} }

NoNote == [bucket |-> None, name |-> None, generation |-> None, session_id |-> None]

\* make_idempotency_key of the gateway under the setting include_session_in_idem = inc
idem_key_under(bucket, name, generation, session_id, inc) ==
    LET sid == IF session_id # None /\ session_id # "" /\ inc THEN session_id ELSE ""
    IN bucket \o "/" \o name \o "@" \o generation \o "|" \o sid

IdemKeys ==
    {idem_key_under(n.bucket, n.name, n.generation, n.session_id, inc) :
        n \in Notes, inc \in BOOLEAN}

\* the JSON body the gateway posts to /run
orch_body(n) ==
    [bucket |-> n.bucket, name |-> n.name, generation |-> n.generation,
     metadata |-> IF n.session_id # None /\ n.session_id # ""
                  THEN [session_id |-> n.session_id] ELSE [none |-> None]]

\* RunCreate(**body): the declared fields only, an absent optional field is None
RunCreate(body) ==
    [bucket |-> body.bucket, name |-> body.name,
     generation |-> IF "generation" \in DOMAIN body THEN body.generation ELSE None,
     session_id |-> IF "session_id" \in DOMAIN body THEN body.session_id ELSE None]

\* ------------------------------------------------------------------- state
VARIABLES
    runDoc,      \* Firestore: run document of each run id
    stepDoc,     \* Firestore: runs/<run_id>/steps/<stage>
    calls,       \* POST /run requests of the orchestrator
    handlers,    \* POST /events/pubsub requests of the orchestrator
    inbox,       \* completion / failure events not yet acked by the orchestrator
    auditAcked,  \* run ids whose audit worker completion event the orchestrator answered 2xx
    reqbox,      \* <stage>.requested events not yet acked by a stage worker
    pubCount,    \* per run and stage: publishes of <stage>.requested
    advances,    \* per run and stage: transactions that returned a next event
    noops,       \* per run and stage: transactions that returned null
    tasks,       \* Cloud Tasks: the task named <stage>-<run_id>
    invoked,     \* per run and stage: business-function invocations
    artifacts,   \* object storage: artifacts/<run_id>/<stage>.json
    nCreated,    \* per run and stage: create_task calls that created the task
    swallowed,   \* <<run id, stage>> for which create_task answered AlreadyExists
    failStage,   \* the stage whose completion publish is made to fail (None: any)
    strays,      \* events of another type not yet acked by a stage worker
    orphanRun,   \* run ids whose run document was first written by an event handler
    reopened,    \* <<run id, stage>> whose COMPLETED record was overwritten
    nInjected,   \* events pushed by the environment so far
    faulted,     \* whether a transaction, a publish or a business function has failed
    include_session_in_idem,  \* gateway setting of the same name
    ingDoc,      \* Firestore: the gateway's ingestion record of each idem_key
    push,        \* POST /pubsub/push requests of the gateway
    caller,      \* per POST /run request: the gateway request that sent it (0: another caller)
    exec,        \* the call of a stage's task executor that is followed step by step
    sent,        \* completion events the followed executor calls have sent
    mask,        \* the call of the deterministic masking that is followed
    gate,        \* the semaphore of a gateway process and its handlers' positions
    areq,        \* the POST /audit request that is followed
    loop,        \* the retry loop that is followed
    redel,       \* notifications of the gateway, each with its record and its handlers
    dup,         \* the executions of one transcribe task and the artifact objects
    rreq         \* the POST /redact request that is followed

vars == <<runDoc, stepDoc, calls, handlers, inbox, auditAcked, reqbox, pubCount, advances,
          noops, tasks, invoked, artifacts, nCreated, swallowed, failStage, strays,
          orphanRun, reopened,
          nInjected, faulted,
          include_session_in_idem, ingDoc, push, caller, exec, sent, mask, gate, areq, loop, redel, dup, rreq>>

orchVars == <<runDoc, stepDoc, calls, handlers, inbox, auditAcked, pubCount, advances,
              noops, orphanRun, reopened>>
workerVars == <<tasks, invoked, artifacts, nCreated, swallowed, failStage, strays>>
ingestVars == <<include_session_in_idem, ingDoc, push, caller>>
sideVars == <<gate, areq, loop, redel, dup, rreq>>
execVars == <<exec, sent, mask, sideVars>>

RunAbsent == [status |-> "ABSENT", outcome |-> None, has_input |-> FALSE]
StepAbsent == [status |-> "ABSENT", hipaa_pass |-> "absent", error |-> None]
NoMsg == [event_type |-> None, run_id |-> None, step |-> None, hipaa_pass |-> "absent",
          error |-> None]
IdleHandler == [pc |-> "idle", msg |-> NoMsg, out |-> None]
IdleCall == [pc |-> "idle", run_id |-> None, created |-> FALSE, wrote |-> <<>>, http |-> 0]

CompletedType(s) == s \o ".completed"
FailedType(s) == s \o ".failed"
RequestedType(s) == s \o ".requested"

\* event_type.endswith(".failed") over the event types of the model
EndsWithFailed(t) == t \in {FailedType(s) : s \in Stages}

IngestAbsent == [status |-> "ABSENT", attempt_count |-> 0]
IdlePush == [pc |-> "idle", note |-> NoNote, slot |-> 0, attempts |-> 0, sc |-> 0,
             err |-> None, http |-> 0]

ExecIdle ==
    [pc |-> "idle", stage |-> None, run_id |-> None, mode |-> None, ordering |-> TRUE,
     audio |-> TRUE, dl |-> None, fault |-> None, fault2 |-> None,
     raised |-> None, http |-> 0]

InitExec ==
    /\ exec = ExecIdle
    /\ sent = {}

\* no gateway process is followed at its guard
GateOff == [orch_concurrency |-> 0, value |-> 0, at |-> <<>>]

\* no POST /audit request is followed
AuditIdle ==
    [pc |-> "idle", transcript |-> <<>>, idempotency_key |-> None, store |-> {},
     store0 |-> {}, lookups |-> 0, llm_calls |-> 0, writes |-> 0, faults |-> <<>>,
     raised |-> None, http |-> 0]

\* no retry loop is followed
LoopIdle ==
    [pc |-> "idle", kind |-> None, max_retries |-> 0, attempts |-> 0, met |-> <<>>,
     tried |-> <<>>, late |-> FALSE, result |-> None]

\* no notification is followed through its redeliveries
RedelOff == <<>>

\* no task is followed through overlapping executions
DupOff == [store |-> {}, pending |-> 0, published |-> 0, ex |-> <<>>]

\* no POST /redact request is followed
RedactIdle ==
    [pc |-> "idle", idem_key |-> "", bucket |-> "", x_idempotency_key |-> None,
     transcripts |-> <<>>, store |-> {}, read |-> None, raised |-> None, http |-> 0]

MaskIdle ==
    [pc |-> "idle", text |-> <<>>, results |-> <<>>, out |-> <<>>, emitted |-> <<>>,
     out2 |-> <<>>]

InitGateway ==
    /\ ingDoc = [k \in IdemKeys |-> IngestAbsent]
    /\ push = [g \in 1..MaxPush |-> IdlePush]
    /\ caller = [c \in 1..MaxCalls |-> 0]

InitPipeline ==
    /\ runDoc = [r \in RunIds |-> RunAbsent]
    /\ stepDoc = [r \in RunIds |-> [s \in Stages |-> StepAbsent]]
    /\ calls = [c \in 1..MaxCalls |-> IdleCall]
    /\ handlers = [h \in 1..MaxHandlers |-> IdleHandler]
    /\ inbox = {}
    /\ auditAcked = {}
    /\ reqbox = {}
    /\ pubCount = [r \in RunIds |-> [s \in Stages |-> 0]]
    /\ advances = [r \in RunIds |-> [s \in Stages |-> 0]]
    /\ noops = [r \in RunIds |-> [s \in Stages |-> 0]]
    /\ tasks = [r \in RunIds |-> [s \in WorkerStages |-> "none"]]
    /\ invoked = [r \in RunIds |-> [s \in WorkerStages |-> 0]]
    /\ artifacts = [r \in RunIds |-> [s \in Stages |-> "absent"]]
    /\ nCreated = [r \in RunIds |-> [s \in WorkerStages |-> 0]]
    /\ swallowed = {}
    /\ strays = {}
    /\ orphanRun = {}
    /\ reopened = {}
    /\ nInjected = 0
    /\ faulted = FALSE

Init ==
    /\ InitPipeline
    /\ InitGateway
    /\ InitExec
    /\ mask = MaskIdle
    /\ gate = GateOff
    /\ areq = AuditIdle
    /\ loop = LoopIdle
    /\ redel = RedelOff
    /\ dup = DupOff
    /\ rreq = RedactIdle
    /\ include_session_in_idem = FALSE
    /\ failStage = None

\* an event envelope as the orchestrator reads it (event_type, run_id, step,
\* artifacts.hipaa_pass, error)
Event(t, r, s, hp, err) ==
    [event_type |-> t, run_id |-> r, step |-> s, hipaa_pass |-> hp, error |-> err]

Request(s, r) == [event_type |-> RequestedType(s), run_id |-> r, ordering_key |-> r]

\* ------------------------------------------------- orchestrator: POST /run
\* create_run's _tx_body without the snap.exists test: every call creates
CreateRunTxBody_NoExistsTest(run, step) ==
    [created |-> TRUE,
     run |-> [status |-> "RUNNING", outcome |-> None, has_input |-> TRUE],
     step |-> [status |-> "PENDING", hipaa_pass |-> "absent", error |-> None]]

\* _tx_body of create_run: what the transaction writes and returns
CreateRunTxBody(run, step) ==
    IF run.status = "ABSENT"
    THEN [created |-> TRUE,
          run |-> [status |-> "RUNNING", outcome |-> None, has_input |-> TRUE],
          step |-> [status |-> "PENDING", hipaa_pass |-> "absent", error |-> None]]
    ELSE [created |-> FALSE, run |-> run, step |-> step]

\* create_run with "if created:" dropped: a call that found the run goes on to publish
CreateRunTx_AlwaysPublish(c, i) ==
    LET r == RunIdOf(i)
        res == CreateRunTxBody(runDoc[r], stepDoc[r]["transcribe"])
    IN /\ calls[c].pc = "idle"
       /\ \A k \in 1..(c - 1) : calls[k].pc # "idle" \/ caller[k] # 0
       /\ caller[c] # 0 => i = RunCreate(orch_body(push[caller[c]].note))
       /\ runDoc' = [runDoc EXCEPT ![r] = res.run]
       /\ stepDoc' = [stepDoc EXCEPT ![r]["transcribe"] = res.step]
       /\ calls' = [calls EXCEPT ![c] =
              [pc |-> "publish", run_id |-> r, created |-> res.created,
               wrote |-> IF runDoc'[r] = runDoc[r] /\ stepDoc'[r] = stepDoc[r] THEN <<>>
                         ELSE <<res.run.status, res.step.status>>,
               http |-> 0]]
       /\ UNCHANGED <<handlers, inbox, auditAcked, reqbox, pubCount, advances, noops, orphanRun,
                      reopened, nInjected, faulted>>
       /\ UNCHANGED workerVars
       /\ UNCHANGED ingestVars
       /\ UNCHANGED execVars

\* create_run up to the end of the transaction; created=false returns 200 at once
CreateRunTx(c, i) ==
    LET r == RunIdOf(i)
        res == CreateRunTxBody(runDoc[r], stepDoc[r]["transcribe"])
    IN /\ calls[c].pc = "idle"
       /\ \A k \in 1..(c - 1) : calls[k].pc # "idle" \/ caller[k] # 0
       /\ caller[c] # 0 => i = RunCreate(orch_body(push[caller[c]].note))
       /\ runDoc' = [runDoc EXCEPT ![r] = res.run]
       /\ stepDoc' = [stepDoc EXCEPT ![r]["transcribe"] = res.step]
       /\ calls' = [calls EXCEPT ![c] =
              [pc |-> IF res.created THEN "publish" ELSE "done",
               run_id |-> r,
               created |-> res.created,
               wrote |-> IF runDoc'[r] = runDoc[r] /\ stepDoc'[r] = stepDoc[r] THEN <<>>
                         ELSE <<res.run.status, res.step.status>>,
               http |-> IF res.created THEN 0 ELSE 200]]
       /\ reopened' = IF stepDoc[r]["transcribe"].status = "COMPLETED" /\ res.created
                      THEN reopened \cup {<<r, "transcribe">>} ELSE reopened
       /\ UNCHANGED <<handlers, inbox, auditAcked, reqbox, pubCount, advances, noops, orphanRun,
                      nInjected, faulted>>
       /\ UNCHANGED workerVars
       /\ UNCHANGED ingestVars
       /\ UNCHANGED execVars

\* the transaction raises (deadline, aborted, contention): 503, nothing written
CreateRunTxError(c, i) ==
    /\ calls[c].pc = "idle"
    /\ \A k \in 1..(c - 1) : calls[k].pc # "idle" \/ caller[k] # 0
    /\ caller[c] # 0 => i = RunCreate(orch_body(push[caller[c]].note))
    /\ faulted' = TRUE
    /\ calls' = [calls EXCEPT ![c] =
           [pc |-> "done", run_id |-> RunIdOf(i), created |-> FALSE, wrote |-> <<>>,
            http |-> 503]]
    /\ UNCHANGED <<runDoc, stepDoc, handlers, inbox, auditAcked, reqbox, pubCount, advances, noops,
                   orphanRun, reopened, nInjected>>
    /\ UNCHANGED workerVars
    /\ UNCHANGED ingestVars
    /\ UNCHANGED execVars

\* publish_event("transcribe", ...) succeeded within its retry budget
CreateRunPublish(c) ==
    LET r == calls[c].run_id
    IN /\ calls[c].pc = "publish"
       /\ "transcribe" \in TOPICS
       /\ pubCount' = [pubCount EXCEPT ![r]["transcribe"] = @ + 1]
       /\ reqbox' = reqbox \cup {Request("transcribe", r)}
       /\ calls' = [calls EXCEPT ![c].pc = "done", ![c].http = 200]
       /\ UNCHANGED <<runDoc, stepDoc, handlers, inbox, auditAcked, advances, noops, orphanRun,
                      reopened, nInjected, faulted>>
       /\ UNCHANGED workerVars
       /\ UNCHANGED ingestVars
       /\ UNCHANGED execVars

\* publish_event exhausted its attempts: the caller gets 503
CreateRunPublishFail(c) ==
    /\ calls[c].pc = "publish"
    /\ faulted' = TRUE
    /\ calls' = [calls EXCEPT ![c].pc = "done", ![c].http = 503]
    /\ UNCHANGED <<runDoc, stepDoc, handlers, inbox, auditAcked, reqbox, pubCount, advances, noops,
                   orphanRun, reopened, nInjected>>
    /\ UNCHANGED workerVars
    /\ UNCHANGED ingestVars
    /\ UNCHANGED execVars

\* ---------------------------------------- orchestrator: POST /events/pubsub
\* the branch handle_pubsub takes for an event type
Dispatch(t) ==
    IF t = "transcribe.completed" THEN "on_transcribe_completed"
    ELSE IF t = "redact.completed" THEN "on_redact_completed"
    ELSE IF t = "audit.completed" THEN "on_audit_completed:audit"
    ELSE IF t = "soap.completed" /\ "soap" \in TOPICS THEN "on_audit_completed:soap"
    ELSE IF EndsWithFailed(t) THEN "on_step_failed"
    ELSE "ignored"

\* tx.set(step_ref, {"status": "COMPLETED", "artifacts": ...}, merge=True)
MergeCompleted(step, evt) ==
    [step EXCEPT !.status = "COMPLETED",
                 !.hipaa_pass = IF evt.hipaa_pass = "absent" THEN @ ELSE evt.hipaa_pass]

\* the idle handler slot a new delivery takes
FreeHandler(h) ==
    /\ handlers[h].pc = "idle"
    /\ \A k \in 1..(h - 1) : handlers[k].pc # "idle"

\* the handler answers 2xx: Pub/Sub stops redelivering the event
Ack(m) ==
    /\ inbox' = inbox \ {m}
    /\ auditAcked' = IF m.event_type = "audit_completed" \/ m.event_type = "audit.completed"
                     THEN auditAcked \cup {m.run_id} ELSE auditAcked

\* on_transcribe_completed's _tx_body without the COMPLETED test: every delivery advances
TranscribeCompletedTx_NoCompletedTest(step, evt) ==
    [next |-> "redact", step |-> MergeCompleted(step, evt)]

\* _tx_body of on_transcribe_completed
TranscribeCompletedTx(step, evt) ==
    IF step.status = "COMPLETED"
    THEN [next |-> None, step |-> step]
    ELSE [next |-> "redact", step |-> MergeCompleted(step, evt)]

\* _tx_body of on_redact_completed
RedactCompletedTx(step, evt) ==
    IF step.status = "COMPLETED"
    THEN [next |-> None, step |-> step]
    ELSE [next |-> "audit", step |-> MergeCompleted(step, evt)]

\* the part shared by the two handlers: commit, then publish when an event came back
CommitAndPublish(h, m, s, res) ==
    LET r == m.run_id
    IN /\ stepDoc' = [stepDoc EXCEPT ![r][s] = res.step]
       /\ IF res.next = None
          THEN /\ Ack(m)
               /\ noops' = [noops EXCEPT ![r][s] = @ + 1]
               /\ UNCHANGED <<handlers, advances>>
          ELSE /\ handlers' = [handlers EXCEPT ![h] =
                      [pc |-> "publish", msg |-> m, out |-> res.next]]
               /\ advances' = [advances EXCEPT ![r][s] = @ + 1]
               /\ UNCHANGED <<inbox, auditAcked, noops>>
       /\ UNCHANGED <<runDoc, calls, reqbox, pubCount, orphanRun, reopened,
                      nInjected, faulted>>
       /\ UNCHANGED workerVars
       /\ UNCHANGED ingestVars
       /\ UNCHANGED execVars

OnTranscribeCompleted(h, m) ==
    /\ m \in inbox
    /\ FreeHandler(h)
    /\ Dispatch(m.event_type) = "on_transcribe_completed"
    /\ CommitAndPublish(h, m, "transcribe",
                        TranscribeCompletedTx(stepDoc[m.run_id]["transcribe"], m))

OnRedactCompleted(h, m) ==
    /\ m \in inbox
    /\ FreeHandler(h)
    /\ Dispatch(m.event_type) = "on_redact_completed"
    /\ CommitAndPublish(h, m, "redact",
                        RedactCompletedTx(stepDoc[m.run_id]["redact"], m))

\* publish_event(<next stage>, ...) after the commit succeeded: the handler answers 200
OrchPublish(h) ==
    LET m == handlers[h].msg
        r == m.run_id
        s == handlers[h].out
    IN /\ handlers[h].pc = "publish"
       /\ s \in TOPICS
       /\ pubCount' = [pubCount EXCEPT ![r][s] = @ + 1]
       /\ reqbox' = reqbox \cup {Request(s, r)}
       /\ handlers' = [handlers EXCEPT ![h] = IdleHandler]
       /\ Ack(m)
       /\ UNCHANGED <<runDoc, stepDoc, calls, advances, noops, orphanRun, reopened,
                      nInjected, faulted>>
       /\ UNCHANGED workerVars
       /\ UNCHANGED ingestVars
       /\ UNCHANGED execVars

\* publish_event exhausted its attempts: the handler answers 500, the event stays
OrchPublishFail(h) ==
    /\ handlers[h].pc = "publish"
    /\ faulted' = TRUE
    /\ handlers' = [handlers EXCEPT ![h] = IdleHandler]
    /\ UNCHANGED <<runDoc, stepDoc, calls, inbox, auditAcked, reqbox, pubCount, advances, noops,
                   orphanRun, reopened, nInjected>>
    /\ UNCHANGED workerVars
    /\ UNCHANGED ingestVars
    /\ UNCHANGED execVars

\* _tx_body of on_audit_completed(step_name): the step documents and the run document
\* it leaves; the read of steps/audit follows the write of steps/<step_name>
AuditCompletedTx(run, steps, evt, step_name) ==
    LET steps1 == IF steps[step_name].status = "COMPLETED"
                  THEN steps
                  ELSE [steps EXCEPT ![step_name] = MergeCompleted(@, evt)]
        audit == steps1["audit"]
        hipaa_pass == IF audit.hipaa_pass = "absent" THEN TRUE
                      ELSE audit.hipaa_pass = "true"
        run1 == IF audit.status = "COMPLETED"
                THEN [run EXCEPT !.status = "COMPLETED",
                                 !.outcome = IF hipaa_pass THEN "PASS" ELSE "FAIL"]
                ELSE run
    IN [steps |-> steps1, run |-> run1]

OnAuditCompleted(h, m) ==
    LET r == m.run_id
        step_name == IF Dispatch(m.event_type) = "on_audit_completed:audit"
                     THEN "audit" ELSE "soap"
        res == AuditCompletedTx(runDoc[r], stepDoc[r], m, step_name)
    IN /\ m \in inbox
       /\ FreeHandler(h)
       /\ Dispatch(m.event_type) \in {"on_audit_completed:audit", "on_audit_completed:soap"}
       /\ stepDoc' = [stepDoc EXCEPT ![r] = res.steps]
       /\ runDoc' = [runDoc EXCEPT ![r] = res.run]
       /\ orphanRun' = IF runDoc[r].status = "ABSENT" /\ res.run.status # "ABSENT"
                       THEN orphanRun \cup {r} ELSE orphanRun
       /\ Ack(m)
       /\ UNCHANGED <<calls, handlers, reqbox, pubCount, advances, noops, reopened,
                      nInjected, faulted>>
       /\ UNCHANGED workerVars
       /\ UNCHANGED ingestVars
       /\ UNCHANGED execVars

\* on_step_failed, first write of _apply: steps/<step> becomes FAILED (no transaction)
OnStepFailed(h, m) ==
    LET r == m.run_id
    IN /\ m \in inbox
       /\ FreeHandler(h)
       /\ Dispatch(m.event_type) = "on_step_failed"
       /\ stepDoc' = [stepDoc EXCEPT ![r][m.step] =
              [@ EXCEPT !.status = "FAILED", !.error = m.error]]
       /\ handlers' = [handlers EXCEPT ![h] =
              [pc |-> "run_write", msg |-> m, out |-> None]]
       /\ reopened' = IF stepDoc[r][m.step].status = "COMPLETED"
                      THEN reopened \cup {<<r, m.step>>} ELSE reopened
       /\ UNCHANGED <<runDoc, calls, inbox, auditAcked, reqbox, pubCount, advances, noops,
                      orphanRun, nInjected, faulted>>
       /\ UNCHANGED workerVars
       /\ UNCHANGED ingestVars
       /\ UNCHANGED execVars

\* on_step_failed, second write of _apply: the run becomes FAILED; the handler answers 200
OnStepFailedRun(h) ==
    LET m == handlers[h].msg
        r == m.run_id
    IN /\ handlers[h].pc = "run_write"
       /\ runDoc' = [runDoc EXCEPT ![r].status = "FAILED"]
       /\ orphanRun' = IF runDoc[r].status = "ABSENT"
                       THEN orphanRun \cup {r} ELSE orphanRun
       /\ handlers' = [handlers EXCEPT ![h] = IdleHandler]
       /\ Ack(m)
       /\ UNCHANGED <<stepDoc, calls, reqbox, pubCount, advances, noops, reopened,
                      nInjected, faulted>>
       /\ UNCHANGED workerVars
       /\ UNCHANGED ingestVars
       /\ UNCHANGED execVars

\* any other event type: {"ignored": event_type}, 200
OnIgnored(h, m) ==
    /\ m \in inbox
    /\ FreeHandler(h)
    /\ Dispatch(m.event_type) = "ignored"
    /\ Ack(m)
    /\ UNCHANGED <<runDoc, stepDoc, calls, handlers, reqbox, pubCount, advances, noops,
                   orphanRun, reopened, nInjected, faulted>>
    /\ UNCHANGED workerVars
    /\ UNCHANGED ingestVars
    /\ UNCHANGED execVars

\* a handler's transaction raises: 500 "Transient handler error", the event stays
OnHandlerError(h, m) ==
    /\ m \in inbox
    /\ FreeHandler(h)
    /\ Dispatch(m.event_type) # "ignored"
    /\ faulted' = TRUE
    /\ UNCHANGED <<runDoc, stepDoc, calls, handlers, inbox, auditAcked, reqbox, pubCount,
                   advances, noops, orphanRun, reopened, nInjected>>
    /\ UNCHANGED workerVars
    /\ UNCHANGED ingestVars
    /\ UNCHANGED execVars

\* ------------------------------------------------------------ stage workers
\* _enqueue_task with a task name that is new on every call
EnqueueTask_FreshName(s, r) ==
    /\ tasks' = [tasks EXCEPT ![r][s] = "queued"]
    /\ nCreated' = [nCreated EXCEPT ![r][s] = @ + 1]
    /\ UNCHANGED swallowed

\* _enqueue_task: create_task under the name <stage>-<run_id>; AlreadyExists is swallowed
EnqueueTask(s, r) ==
    /\ tasks' = [tasks EXCEPT ![r][s] = IF @ = "none" THEN "queued" ELSE @]
    /\ nCreated' = [nCreated EXCEPT ![r][s] = IF tasks[r][s] = "none" THEN @ + 1 ELSE @]
    /\ swallowed' = IF tasks[r][s] = "none" THEN swallowed ELSE swallowed \cup {<<r, s>>}

\* pubsub_push of a stage worker for an event of its own <stage>.requested type
PubsubPush(s, m) ==
    /\ m \in reqbox
    /\ m.event_type = RequestedType(s)
    /\ m.run_id # None
    /\ EnqueueTask(s, m.run_id)
    /\ reqbox' = reqbox \ {m}
    /\ UNCHANGED <<invoked, artifacts, failStage, strays, nInjected, faulted>>
    /\ UNCHANGED orchVars
    /\ UNCHANGED ingestVars
    /\ UNCHANGED execVars

\* pubsub_push of a stage worker for an event of any other type: acked, nothing enqueued
PushIgnored(s, m) ==
    /\ m \in strays
    /\ m.to = s
    /\ m.event_type # RequestedType(s)
    /\ strays' = strays \ {m}
    /\ UNCHANGED <<reqbox, tasks, invoked, artifacts, nCreated, swallowed, failStage,
                   nInjected, faulted>>
    /\ UNCHANGED orchVars
    /\ UNCHANGED ingestVars
    /\ UNCHANGED execVars

\* pubsub_push of a stage worker when create_task raises anything but AlreadyExists:
\* 500 "enqueue failed", the event stays with the subscription
PushEnqueueFail(s, m) ==
    /\ m \in reqbox
    /\ m.event_type = RequestedType(s)
    /\ m.run_id # None
    /\ faulted' = TRUE
    /\ UNCHANGED <<reqbox, nInjected>>
    /\ UNCHANGED orchVars
    /\ UNCHANGED workerVars
    /\ UNCHANGED ingestVars
    /\ UNCHANGED execVars

TranscribePush(m) == PubsubPush("transcribe", m)

AuditPush(m) == PubsubPush("audit", m)

RedactPush(m) == PubsubPush("redact", m)

\* the business call of a task that is allowed to run: a cached artifact is returned
\* as is, otherwise the business function runs and its output is saved
RunOrCached(s, r, output) ==
    /\ tasks[r][s] = "queued"
    /\ IF artifacts[r][s] # "absent"
       THEN UNCHANGED <<artifacts, invoked>>
       ELSE /\ artifacts' = [artifacts EXCEPT ![r][s] = output]
            /\ invoked' = [invoked EXCEPT ![r][s] = @ + 1]
    /\ tasks' = [tasks EXCEPT ![r][s] = "publishing"]
    /\ UNCHANGED <<nCreated, swallowed, failStage, strays, reqbox, nInjected, faulted>>
    /\ UNCHANGED orchVars
    /\ UNCHANGED ingestVars
    /\ UNCHANGED execVars

\* transcribe_with_idempotency inside _process_transcription_task
TranscribeTask(r) == RunOrCached("transcribe", r, "present")

\* _process_audit_task up to the publish: the redacted artifact is read first
\* (a missing object makes download_blob raise, the task is answered 503 and stays
\* queued), then generate_audit_with_idempotency; the LLM decides hipaa_compliant
AuditTask(r, compliant) ==
    /\ artifacts[r]["redact"] # "absent"
    /\ RunOrCached("audit", r, IF compliant THEN "compliant" ELSE "noncompliant")

\* redact task-executor: cache, then the transcript artifact (missing: PermanentError,
\* 422), then the PHI detector
RedactTask(r) ==
    IF artifacts[r]["redact"] = "absent" /\ artifacts[r]["transcribe"] = "absent"
    THEN /\ tasks[r]["redact"] = "queued"
         /\ tasks' = [tasks EXCEPT ![r]["redact"] = "dead"]
         /\ UNCHANGED <<reqbox, invoked, artifacts, nCreated, swallowed, failStage,
                        strays, nInjected, faulted>>
         /\ UNCHANGED orchVars
         /\ UNCHANGED ingestVars
         /\ UNCHANGED execVars
    ELSE RunOrCached("redact", r, "present")

\* the business function raises PermanentError: tasks_<stage> answers 422 and the
\* task queue stops retrying
TaskPermanent(s, r) ==
    /\ tasks[r][s] = "queued"
    /\ artifacts[r][s] = "absent"
    /\ s = "audit" => artifacts[r]["redact"] # "absent"
    /\ faulted' = TRUE
    /\ invoked' = [invoked EXCEPT ![r][s] = @ + 1]
    /\ tasks' = [tasks EXCEPT ![r][s] = "dead"]
    /\ UNCHANGED <<reqbox, artifacts, nCreated, swallowed, failStage, strays, nInjected>>
    /\ UNCHANGED orchVars
    /\ UNCHANGED ingestVars
    /\ UNCHANGED execVars

\* the completion event a stage worker builds
CompletionEvent(s, r) ==
    IF s = "audit"
    THEN Event("audit_completed", r, "audit", "absent", None)
    ELSE Event(CompletedType(s), r, s, "absent", None)

\* _publish_completed succeeded: tasks_<stage> answers 200 {ok: true}
TaskPublish(s, r) ==
    /\ tasks[r][s] = "publishing"
    /\ inbox' = inbox \cup {CompletionEvent(s, r)}
    /\ tasks' = [tasks EXCEPT ![r][s] = "done"]
    /\ UNCHANGED <<runDoc, stepDoc, calls, handlers, auditAcked, reqbox, pubCount, advances, noops,
                   orphanRun, reopened, invoked, artifacts, nCreated, swallowed, failStage, strays,
                   nInjected, faulted>>
    /\ UNCHANGED ingestVars
    /\ UNCHANGED execVars

\* _publish_completed exhausted its attempts: 503, the task queue runs the task again
TaskPublishFail(s, r) ==
    /\ tasks[r][s] = "publishing"
    /\ faulted' = TRUE
    /\ tasks' = [tasks EXCEPT ![r][s] = "queued"]
    /\ UNCHANGED <<reqbox, invoked, artifacts, nCreated, swallowed, failStage, strays, nInjected>>
    /\ UNCHANGED orchVars
    /\ UNCHANGED ingestVars
    /\ UNCHANGED execVars

\* _process_audit_task when the redacted artifact cannot be read: download_blob raises
\* before generate_audit_with_idempotency is reached, tasks_audit answers 503 and the
\* task waits for its next dispatch
AuditTaskUnreadable(r) ==
    /\ tasks[r]["audit"] = "queued"
    /\ artifacts[r]["redact"] = "absent"
    /\ tasks' = [tasks EXCEPT ![r]["audit"] = "backoff"]
    /\ UNCHANGED <<reqbox, invoked, artifacts, nCreated, swallowed, failStage, strays, nInjected,
                   faulted>>
    /\ UNCHANGED orchVars
    /\ UNCHANGED ingestVars
    /\ UNCHANGED execVars

\* the task queue dispatches a task again after a 503
TaskRetry(s, r) ==
    /\ tasks[r][s] = "backoff"
    /\ tasks' = [tasks EXCEPT ![r][s] = "queued"]
    /\ UNCHANGED <<reqbox, invoked, artifacts, nCreated, swallowed, failStage, strays, nInjected,
                   faulted>>
    /\ UNCHANGED orchVars
    /\ UNCHANGED ingestVars
    /\ UNCHANGED execVars

\* -------------------------------------------------------------- environment
\* the artifact of a finished stage is removed from the bucket
ArtifactLost(s, r) ==
    /\ tasks[r][s] = "done"
    /\ artifacts[r][s] # "absent"
    /\ artifacts' = [artifacts EXCEPT ![r][s] = "absent"]
    /\ UNCHANGED <<reqbox, tasks, invoked, nCreated, swallowed, failStage, strays,
                   nInjected, faulted>>
    /\ UNCHANGED orchVars
    /\ UNCHANGED ingestVars
    /\ UNCHANGED execVars

\* an event of a type that is not the worker's own reaches the subscription of worker s
\* (one such event at a time)
Misroute(s, t, r) ==
    /\ t # RequestedType(s)
    /\ strays = {}
    /\ strays' = {[to |-> s, event_type |-> t, run_id |-> r]}
    /\ UNCHANGED <<reqbox, tasks, invoked, artifacts, nCreated, swallowed, failStage,
                   nInjected, faulted>>
    /\ UNCHANGED orchVars
    /\ UNCHANGED ingestVars
    /\ UNCHANGED execVars

\* <stage>.requested of a run is delivered (again) to the stage worker's subscription
RequestDelivered(s, r) ==
    /\ Request(s, r) \notin reqbox
    /\ reqbox' = reqbox \cup {Request(s, r)}
    /\ UNCHANGED <<nInjected, faulted>>
    /\ UNCHANGED orchVars
    /\ UNCHANGED workerVars
    /\ UNCHANGED ingestVars
    /\ UNCHANGED execVars

\* events the push subscription of the orchestrator can carry besides the workers' own
EnvEvents ==
    {Event(CompletedType(s), r, s, "absent", None) :
        s \in {"transcribe", "redact", "soap"}, r \in RunIds}
    \cup {Event("audit.completed", r, "audit", hp, None) :
            hp \in {"true", "false"}, r \in RunIds}
    \cup {Event(FailedType(s), r, s, "absent", "boom") : s \in {"transcribe"}, r \in RunIds}

\* a late, duplicate or foreign event reaches POST /events/pubsub
InjectEvent(e) ==
    /\ nInjected < MaxInject
    /\ e \notin inbox
    /\ inbox' = inbox \cup {e}
    /\ nInjected' = nInjected + 1
    /\ UNCHANGED <<runDoc, stepDoc, calls, handlers, auditAcked, reqbox, pubCount, advances, noops,
                   orphanRun, reopened, faulted>>
    /\ UNCHANGED workerVars
    /\ UNCHANGED ingestVars
    /\ UNCHANGED execVars

\* ------------------------------------------------------------ ingestion gateway
make_idempotency_key(bucket, name, generation, session_id) ==
    idem_key_under(bucket, name, generation, session_id, include_session_in_idem)

IdemKeyOf(n) == make_idempotency_key(n.bucket, n.name, n.generation, n.session_id)

\* status codes an attempt can be answered with before create_run runs (the platform in
\* front of the orchestrator: forbidden, request validation, rate limit)
RejectStatuses == {403, 422, 429}

\* _tx_body of _firestore_tx_check_and_mark with FAILED_PERMANENT left out of the
\* duplicate statuses
CheckAndMarkTx_RetriesPermanent(doc) ==
    IF doc.status # "ABSENT"
    THEN IF doc.status \in {"PROCESSING", "DONE"}
         THEN [action |-> "DUPLICATE", doc |-> doc]
         ELSE [action |-> "PROCESS",
               doc |-> [doc EXCEPT !.status = "PROCESSING", !.attempt_count = @ + 1]]
    ELSE [action |-> "PROCESS", doc |-> [status |-> "PROCESSING", attempt_count |-> 1]]

\* _tx_body of _firestore_tx_check_and_mark with the status test lost: every
\* notification is processed
CheckAndMarkTx_NoDuplicateTest(doc) ==
    [action |-> "PROCESS",
     doc |-> [status |-> "PROCESSING", attempt_count |-> doc.attempt_count + 1]]

\* _tx_body of _firestore_tx_check_and_mark
CheckAndMarkTx(doc) ==
    IF doc.status # "ABSENT"
    THEN IF doc.status \in {"PROCESSING", "DONE", "FAILED_PERMANENT"}
         THEN [action |-> "DUPLICATE", doc |-> doc]
         ELSE [action |-> "PROCESS",
               doc |-> [doc EXCEPT !.status = "PROCESSING", !.attempt_count = @ + 1]]
    ELSE [action |-> "PROCESS", doc |-> [status |-> "PROCESSING", attempt_count |-> 1]]

\* call_orchestrator with 5xx mapped to PermanentError
ClassifyStatus_5xxPermanent(sc) ==
    IF sc = 429 THEN "retryable"
    ELSE IF sc >= 500 \/ sc \in {400, 422} THEN "permanent"
    ELSE "ok"

\* call_orchestrator: the error class of a response status ("ok": the body is returned)
ClassifyStatus(sc) ==
    IF sc >= 500 \/ sc \in {429, 503} THEN "retryable"
    ELSE IF sc \in {400, 422} THEN "permanent"
    ELSE "ok"

\* pubsub_push up to the answer of _firestore_tx_check_and_mark: DUPLICATE is acked 204
IngestPush(g, n) ==
    LET k == IdemKeyOf(n)
        res == CheckAndMarkTx(ingDoc[k])
    IN /\ push[g].pc = "idle"
       /\ \A j \in 1..(g - 1) : push[j].pc # "idle"
       /\ ingDoc' = [ingDoc EXCEPT ![k] = res.doc]
       /\ IF res.action = "DUPLICATE"
          THEN /\ push' = [push EXCEPT ![g] = [IdlePush EXCEPT !.pc = "done", !.note = n,
                                                               !.err = "duplicate",
                                                               !.http = 204]]
          ELSE /\ push' = [push EXCEPT ![g] = [IdlePush EXCEPT !.pc = "call", !.note = n]]
       /\ UNCHANGED <<include_session_in_idem, caller>>
       /\ UNCHANGED <<reqbox, nInjected, faulted>>
       /\ UNCHANGED orchVars
       /\ UNCHANGED workerVars
       /\ UNCHANGED execVars

\* call_orchestrator: client.post(url, json=orch_body) reaches the orchestrator
IngestAttempt(g, c) ==
    /\ push[g].pc = "call"
    /\ push[g].attempts < max_attempts
    /\ calls[c].pc = "idle" /\ caller[c] = 0
    /\ \A k \in 1..(c - 1) : calls[k].pc # "idle" \/ caller[k] # 0
    /\ caller' = [caller EXCEPT ![c] = g]
    /\ push' = [push EXCEPT ![g].pc = "wait", ![g].slot = c, ![g].attempts = @ + 1]
    /\ UNCHANGED <<include_session_in_idem, ingDoc>>
    /\ UNCHANGED <<reqbox, nInjected, faulted>>
    /\ UNCHANGED orchVars
    /\ UNCHANGED workerVars
    /\ UNCHANGED execVars

\* the outcome of one attempt, the made-th: a retryable error is retried (again) while
\* attempts and the time budget last; otherwise the record is written and the push
\* answered
Settle(g, sc, class, again, made) ==
    LET n == push[g].note
        k == IdemKeyOf(n)
    IN /\ again => (class = "retryable" /\ made < max_attempts)
       /\ IF again
          THEN /\ push' = [push EXCEPT ![g].pc = "call", ![g].slot = 0,
                                       ![g].attempts = made]
               /\ UNCHANGED ingDoc
          ELSE IF class = "ok"
          THEN /\ ingDoc' = [ingDoc EXCEPT ![k].status = "DONE"]
               /\ push' = [push EXCEPT ![g].pc = "done", ![g].sc = sc, ![g].err = "none",
                                       ![g].http = 204, ![g].attempts = 0, ![g].slot = 0]
          ELSE IF class = "permanent"
          THEN /\ ingDoc' = [ingDoc EXCEPT ![k].status = "FAILED_PERMANENT"]
               /\ push' = [push EXCEPT ![g].pc = "done", ![g].sc = sc,
                                       ![g].err = "permanent", ![g].http = 204,
                                       ![g].attempts = 0, ![g].slot = 0]
          ELSE /\ ingDoc' = [ingDoc EXCEPT ![k].status = "FAILED_TRANSIENT",
                                           ![k].attempt_count = @ + 1]
               /\ push' = [push EXCEPT ![g].pc = "done", ![g].sc = sc, ![g].err = class,
                                       ![g].http = 500, ![g].attempts = 0, ![g].slot = 0]
       /\ UNCHANGED <<include_session_in_idem, caller>>
       /\ UNCHANGED <<reqbox, nInjected, faulted>>
       /\ UNCHANGED orchVars
       /\ UNCHANGED workerVars
       /\ UNCHANGED execVars

\* whether tenacity makes another attempt after an error of this class that took no
\* time: the attempts decide, the time budget is not used up
Retries(class, made) == class = "retryable" /\ made < max_attempts

\* call_orchestrator reads the status code create_run answered
IngestResponse(g) ==
    LET sc == calls[push[g].slot].http
    IN /\ push[g].pc = "wait"
       /\ calls[push[g].slot].pc = "done"
       /\ Settle(g, sc, ClassifyStatus(sc), Retries(ClassifyStatus(sc), push[g].attempts),
                 push[g].attempts)

\* an attempt is answered before create_run runs
IngestRejected(g, sc) ==
    /\ push[g].pc = "call"
    /\ push[g].attempts < max_attempts
    /\ sc \in RejectStatuses
    /\ Settle(g, sc, ClassifyStatus(sc), Retries(ClassifyStatus(sc), push[g].attempts + 1),
              push[g].attempts + 1)

\* httpx.RequestError: no connection (before the request reaches the orchestrator) or a
\* read timeout (the request may still be served); RetryableError, retried (again) unless
\* the attempts or the time budget orch_retry_budget_s are used up
IngestNetworkError(g, again) ==
    /\ \/ push[g].pc = "call" /\ push[g].attempts < max_attempts
       \/ push[g].pc = "wait"
    /\ Settle(g, 0, "retryable", again,
              IF push[g].pc = "call" THEN push[g].attempts + 1 ELSE push[g].attempts)

\* an exception of no known class inside the try block (the identity token cannot be
\* fetched): the last except clause
IngestUnexpected(g) ==
    /\ push[g].pc = "call"
    /\ push[g].attempts = 0
    /\ Settle(g, 0, "unexpected", FALSE, 0)

\* ------------------------------------------------------------ specification
Next ==
    \/ \E c \in 1..MaxCalls, i \in Inputs : CreateRunTx(c, i)
    \/ \E c \in 1..MaxCalls, i \in Inputs : CreateRunTxError(c, i)
    \/ \E c \in 1..MaxCalls : CreateRunPublish(c)
    \/ \E c \in 1..MaxCalls : CreateRunPublishFail(c)
    \/ \E h \in 1..MaxHandlers, m \in inbox : OnTranscribeCompleted(h, m)
    \/ \E h \in 1..MaxHandlers, m \in inbox : OnRedactCompleted(h, m)
    \/ \E h \in 1..MaxHandlers, m \in inbox : OnAuditCompleted(h, m)
    \/ \E h \in 1..MaxHandlers, m \in inbox : OnStepFailed(h, m)
    \/ \E h \in 1..MaxHandlers : OnStepFailedRun(h)
    \/ \E h \in 1..MaxHandlers, m \in inbox : OnIgnored(h, m)
    \/ \E h \in 1..MaxHandlers, m \in inbox : OnHandlerError(h, m)
    \/ \E h \in 1..MaxHandlers : OrchPublish(h)
    \/ \E h \in 1..MaxHandlers : OrchPublishFail(h)
    \/ \E m \in reqbox : TranscribePush(m)
    \/ \E m \in reqbox : RedactPush(m)
    \/ \E m \in reqbox : AuditPush(m)
    \/ \E r \in RunIds : TranscribeTask(r)
    \/ \E r \in RunIds : RedactTask(r)
    \/ \E r \in RunIds, compliant \in BOOLEAN : AuditTask(r, compliant)
    \/ \E r \in RunIds, s \in WorkerStages : TaskPermanent(s, r)
    \/ \E r \in RunIds, s \in WorkerStages : TaskPublish(s, r)
    \/ \E r \in RunIds, s \in WorkerStages : TaskPublishFail(s, r)
    \/ \E e \in EnvEvents : InjectEvent(e)

Spec == Init /\ [][Next]_vars

\* the gateway in front of the orchestrator's POST /run, under either setting of
\* include_session_in_idem; a 503 of create_run comes from its failed publish
InitIngest ==
    /\ InitPipeline
    /\ InitGateway
    /\ InitExec
    /\ mask = MaskIdle
    /\ gate = GateOff
    /\ areq = AuditIdle
    /\ loop = LoopIdle
    /\ redel = RedelOff
    /\ dup = DupOff
    /\ rreq = RedactIdle
    /\ include_session_in_idem \in BOOLEAN
    /\ failStage = None

NextIngest ==
    \/ \E g \in 1..MaxPush, n \in Notes : IngestPush(g, n)
    \/ \E g \in 1..MaxPush, c \in 1..MaxCalls : IngestAttempt(g, c)
    \/ \E g \in 1..MaxPush : IngestResponse(g)
    \/ \E g \in 1..MaxPush, sc \in RejectStatuses : IngestRejected(g, sc)
    \/ \E g \in 1..MaxPush, again \in BOOLEAN : IngestNetworkError(g, again)
    \/ \E g \in 1..MaxPush : IngestUnexpected(g)
    \/ \E c \in 1..MaxCalls, i \in Inputs : caller[c] # 0 /\ CreateRunTx(c, i)
    \/ \E c \in 1..MaxCalls : CreateRunPublish(c)
    \/ \E c \in 1..MaxCalls : CreateRunPublishFail(c)

SpecIngest == InitIngest /\ [][NextIngest]_vars

\* event types a worker's subscription can carry that are not its own request
StrayTypes == {RequestedType(s) : s \in WorkerStages} \cup {"transcribe.completed"}

\* the stage workers alone: requests arrive in any order and any number of times, a
\* finished stage's artifact can disappear
NextWorker ==
    \/ \E s \in WorkerStages, r \in RunIds : RequestDelivered(s, r)
    \/ \E m \in reqbox : TranscribePush(m)
    \/ \E m \in reqbox : RedactPush(m)
    \/ \E m \in reqbox : AuditPush(m)
    \/ \E s \in WorkerStages, m \in reqbox : PushEnqueueFail(s, m)
    \/ \E s \in WorkerStages, t \in StrayTypes, r \in RunIds : Misroute(s, t, r)
    \/ \E s \in WorkerStages, m \in strays : PushIgnored(s, m)
    \/ \E r \in RunIds : TranscribeTask(r)
    \/ \E r \in RunIds : RedactTask(r)
    \/ \E r \in RunIds, compliant \in BOOLEAN : AuditTask(r, compliant)
    \/ \E r \in RunIds : AuditTaskUnreadable(r)
    \/ \E r \in RunIds, s \in WorkerStages : TaskRetry(s, r)
    \/ \E r \in RunIds, s \in WorkerStages : TaskPermanent(s, r)
    \/ \E r \in RunIds, s \in WorkerStages : TaskPublish(s, r)
    \/ \E r \in RunIds, s \in WorkerStages : TaskPublishFail(s, r)
    \/ \E r \in RunIds, s \in WorkerStages : ArtifactLost(s, r)

SpecWorker == Init /\ [][NextWorker]_vars

\* the pipeline when nothing fails but the completion publish of one stage, failStage
InitRetry ==
    /\ InitPipeline
    /\ InitGateway
    /\ InitExec
    /\ mask = MaskIdle
    /\ gate = GateOff
    /\ areq = AuditIdle
    /\ loop = LoopIdle
    /\ redel = RedelOff
    /\ dup = DupOff
    /\ rreq = RedactIdle
    /\ include_session_in_idem = FALSE
    /\ failStage \in WorkerStages

NextRetry ==
    \/ \E c \in 1..MaxCalls, i \in Inputs : CreateRunTx(c, i)
    \/ \E c \in 1..MaxCalls : CreateRunPublish(c)
    \/ \E h \in 1..MaxHandlers, m \in inbox : OnTranscribeCompleted(h, m)
    \/ \E h \in 1..MaxHandlers, m \in inbox : OnRedactCompleted(h, m)
    \/ \E h \in 1..MaxHandlers, m \in inbox : OnIgnored(h, m)
    \/ \E h \in 1..MaxHandlers : OrchPublish(h)
    \/ \E m \in reqbox : TranscribePush(m)
    \/ \E m \in reqbox : RedactPush(m)
    \/ \E m \in reqbox : AuditPush(m)
    \/ \E r \in RunIds : TranscribeTask(r)
    \/ \E r \in RunIds : RedactTask(r)
    \/ \E r \in RunIds, compliant \in BOOLEAN : AuditTask(r, compliant)
    \/ \E r \in RunIds, s \in WorkerStages : TaskPublish(s, r)
    \/ \E r \in RunIds : TaskPublishFail(failStage, r)

SpecRetry == InitRetry /\ [][NextRetry]_vars

\* Firestore's TTL policy on ttl_at deletes the ingestion record of an input the
\* gateway is done with
ReapRecord(k) ==
    /\ ingDoc[k].status = "DONE"
    /\ ingDoc' = [ingDoc EXCEPT ![k] = IngestAbsent]
    /\ UNCHANGED <<include_session_in_idem, push, caller>>
    /\ UNCHANGED <<reqbox, nInjected, faulted>>
    /\ UNCHANGED orchVars
    /\ UNCHANGED workerVars
    /\ UNCHANGED execVars

\* the gateway, create_run and the transcribe worker when ingestion records are reaped
NextReap ==
    \/ \E g \in 1..MaxPush, n \in Notes : IngestPush(g, n)
    \/ \E g \in 1..MaxPush, c \in 1..MaxCalls : IngestAttempt(g, c)
    \/ \E g \in 1..MaxPush : IngestResponse(g)
    \/ \E g \in 1..MaxPush, sc \in RejectStatuses : IngestRejected(g, sc)
    \/ \E g \in 1..MaxPush, again \in BOOLEAN : IngestNetworkError(g, again)
    \/ \E c \in 1..MaxCalls, i \in Inputs : caller[c] # 0 /\ CreateRunTx(c, i)
    \/ \E c \in 1..MaxCalls : CreateRunPublish(c)
    \/ \E c \in 1..MaxCalls : CreateRunPublishFail(c)
    \/ \E m \in reqbox : TranscribePush(m)
    \/ \E r \in RunIds : TranscribeTask(r)
    \/ \E k \in IdemKeys : ReapRecord(k)

SpecReap == Init /\ [][NextReap]_vars

\* ------------------------------------------------- stage task executors
\* tasks_transcribe / tasks_audit: the HTTP answer for what _process_<stage>_task
\* raised (None: it returned)
TaskAnswer_All503(raised) ==
    IF raised = None THEN 200 ELSE 503

TaskAnswer(raised) ==
    IF raised = None THEN 200
    ELSE IF raised = "PermanentError" THEN 422
    ELSE 503

\* what the speech-to-text call can raise
SttFaults == {None, "RuntimeError", "Unknown"}

\* transcribe_backend: RuntimeError is retryable, anything else permanent
transcribe_backend(fault) ==
    IF fault = None THEN None
    ELSE IF fault = "RuntimeError" THEN "RetryableError"
    ELSE "PermanentError"

\* what download_blob_to_tmp can raise besides FileNotFoundError (object missing)
DownloadFaults == {None, "Unknown"}

\* transcribe_with_idempotency: cache, download of the audio object, backend, save
transcribe_with_idempotency(cached, audio, dl, stt) ==
    IF cached THEN None
    ELSE IF ~audio THEN "PermanentError"
    ELSE IF dl # None THEN "RetryableError"
    ELSE transcribe_backend(stt)

\* what one chat.completions.create call, or the parsing of its answer, can raise
LlmFaults ==
    {None, "APITimeoutError", "RateLimitError", "APIError5xx", "APIError4xx",
     "JSONDecodeError", "Unknown"}

\* one attempt of _call_llm_with_guardrails
llm_attempt(fault) ==
    IF fault = None THEN None
    ELSE IF fault \in {"APITimeoutError", "APIConnectionError", "RateLimitError",
                       "APIError5xx", "Unknown"}
    THEN "RetryableError"
    ELSE "PermanentError"

\* _call_llm_with_guardrails under its @retry: two attempts, a RetryableError is tried
\* again, and when the last attempt raised one too tenacity raises RetryError
call_llm_with_guardrails(f1, f2) ==
    IF llm_attempt(f1) # "RetryableError" THEN llm_attempt(f1)
    ELSE IF llm_attempt(f2) # "RetryableError" THEN llm_attempt(f2)
    ELSE "RetryError"

\* generate_audit_with_idempotency for a non-empty redacted text: cache, LLM, save
generate_audit_with_idempotency(cached, f1, f2) ==
    IF cached THEN None ELSE call_llm_with_guardrails(f1, f2)

\* what the PHI detection can raise
DetectFaults == {None, "Unknown"}

\* redact_with_idempotency: the transcript is downloaded (a missing object makes
\* download_blob raise), PHI is detected and masked, the artifact saved; any exception
\* but RetryableError leaves as PermanentError
redact_with_idempotency(transcript, fault) ==
    IF ~transcript THEN "PermanentError"
    ELSE IF fault # None THEN "PermanentError"
    ELSE None

\* settings of a worker: pubsub_enabled, and orchestrator_pubsub_url set or not
Modes == {"pubsub", "local", "nourl"}

\* the speech-to-text output of a run, as the transcribe artifact holds it
Transcript(r) == "text of " \o r

\* artifact_blob_path of each worker
artifact_blob_path(s, r) ==
    "artifacts/" \o r \o "/" \o
        (IF s = "transcribe" THEN "transcript" ELSE IF s = "redact" THEN "redacted" ELSE s)
        \o ".json"

\* the artifacts map of the completion event of stage s, as <<key, value>> pairs
OutArtifacts(s, r) ==
    IF s = "transcribe"
    THEN {<<"cache_key", r>>, <<"transcription", Transcript(r)>>,
          <<"transcript_uri", artifact_blob_path(s, r)>>}
    ELSE IF s = "audit"
    THEN {<<"cache_key", r>>, <<"audit_uri", artifact_blob_path(s, r)>>}
    ELSE {<<"cache_key", r>>, <<"redacted_uri", artifact_blob_path(s, r)>>}

\* the completion event the executor of stage s builds, and how it leaves: published
\* to Pub/Sub with this ordering key, or posted to the orchestrator (local mode)
Completed(s, r, via, key) ==
    [event_type |-> CompletionEvent(s, r).event_type, run_id |-> r, step |-> s,
     artifacts |-> OutArtifacts(s, r), via |-> via, ordering_key |-> key]

\* _publish_completed._pub_sync: the ordering key the publish call is given
PublishKey(s, ordering, r) ==
    IF s = "audit" /\ ~ordering THEN None ELSE r

\* what the inner call of stage s can raise (for audit: each of the two attempts)
StageFaults(s) ==
    IF s = "transcribe" THEN SttFaults ELSE IF s = "audit" THEN LlmFaults ELSE DetectFaults

\* Cloud Tasks calls POST /tasks/<stage> for a run. What the call will meet is fixed
\* here: the worker's settings, whether the audio object exists and what its download
\* raises (transcribe), what the stage's inner call raises when it is reached (fault)
\* and what the second attempt of the LLM call, made after a RetryableError of the
\* first, raises (fault2, audit)
ExecStart(s, r, mode, ordering, audio, dl, fault, fault2) ==
    /\ exec.pc = "idle"
    /\ s # "audit" => ordering /\ fault2 = None
    /\ fault2 # None => llm_attempt(fault) = "RetryableError"
    /\ s # "transcribe" => audio /\ dl = None
    /\ fault \in StageFaults(s)
    /\ exec' = [ExecIdle EXCEPT !.pc = "run", !.stage = s, !.run_id = r, !.mode = mode,
                                !.ordering = ordering, !.audio = audio, !.dl = dl,
                                !.fault = fault, !.fault2 = fault2]
    /\ UNCHANGED <<sent, mask, sideVars, reqbox, inbox, nInjected, faulted>>
    /\ UNCHANGED <<runDoc, stepDoc, calls, handlers, auditAcked, pubCount, advances, noops,
                   orphanRun, reopened>>
    /\ UNCHANGED workerVars
    /\ UNCHANGED ingestVars

\* the executor raised: tasks_<stage> answers by the kind of the exception
ExecRaise(raised) ==
    exec' = [exec EXCEPT !.pc = "done", !.raised = raised, !.http = TaskAnswer(raised)]

\* the business call of the followed executor ended: outcome None stores the artifact
\* (unless cached) and goes on to the publish, anything else is raised
ExecBusiness(s, outcome, output) ==
    /\ IF outcome = None
       THEN /\ exec' = [exec EXCEPT !.pc = "publish"]
            /\ artifacts' = [artifacts EXCEPT ![exec.run_id][s] =
                                IF @ = "absent" THEN output ELSE @]
       ELSE /\ ExecRaise(outcome)
            /\ UNCHANGED artifacts
    /\ UNCHANGED <<sent, mask, sideVars, reqbox, inbox, nInjected, faulted>>
    /\ UNCHANGED <<runDoc, stepDoc, calls, handlers, auditAcked, pubCount, advances, noops,
                   orphanRun, reopened>>
    /\ UNCHANGED <<tasks, invoked, nCreated, swallowed, failStage, strays>>
    /\ UNCHANGED ingestVars

\* _process_transcription_task up to the publish
TranscribeExec ==
    /\ exec.pc = "run"
    /\ exec.stage = "transcribe"
    /\ ExecBusiness("transcribe",
                    transcribe_with_idempotency(
                        artifacts[exec.run_id]["transcribe"] # "absent", exec.audio, exec.dl,
                        exec.fault),
                    "present")

\* _process_audit_task up to the publish: download_blob of the redacted artifact raises
\* NotFound when the object is missing, then generate_audit_with_idempotency
AuditExec(compliant) ==
    /\ exec.pc = "run"
    /\ exec.stage = "audit"
    /\ ExecBusiness("audit",
                    IF artifacts[exec.run_id]["redact"] = "absent" THEN "NotFound"
                    ELSE generate_audit_with_idempotency(
                             artifacts[exec.run_id]["audit"] # "absent", exec.fault, exec.fault2),
                    IF compliant THEN "compliant" ELSE "noncompliant")

\* redact task-executor up to the publish: cache, then redact_with_idempotency
RedactExec ==
    /\ exec.pc = "run"
    /\ exec.stage = "redact"
    /\ ExecBusiness("redact",
                    IF artifacts[exec.run_id]["redact"] # "absent" THEN None
                    ELSE redact_with_idempotency(
                             artifacts[exec.run_id]["transcribe"] # "absent", exec.fault),
                    "present")

\* the end of _process_<stage>_task: _publish_completed when pubsub_enabled (ok: the
\* publish was accepted within its attempts), else the envelope is posted to
\* orchestrator_pubsub_url (ok: status below 300), or nothing is sent when no url is set
ExecPublish(ok) ==
    /\ exec.pc = "publish"
    /\ LET s == exec.stage
           r == exec.run_id
       IN CASE exec.mode = "pubsub" ->
                 IF ok
                 THEN /\ sent' = sent \cup
                                   {Completed(s, r, "pubsub", PublishKey(s, exec.ordering, r))}
                      /\ ExecRaise(None)
                 ELSE /\ ExecRaise("PublishError")
                      /\ UNCHANGED sent
            [] exec.mode = "local" ->
                 IF ok
                 THEN /\ sent' = sent \cup {Completed(s, r, "post", None)}
                      /\ ExecRaise(None)
                 ELSE /\ ExecRaise("RetryableError")
                      /\ UNCHANGED sent
            [] OTHER ->
                 /\ ok
                 /\ ExecRaise(None)
                 /\ UNCHANGED sent
    /\ UNCHANGED <<mask, sideVars, reqbox, inbox, nInjected, faulted>>
    /\ UNCHANGED <<runDoc, stepDoc, calls, handlers, auditAcked, pubCount, advances, noops,
                   orphanRun, reopened>>
    /\ UNCHANGED workerVars
    /\ UNCHANGED ingestVars

\* the answer has been sent; the executor can be called again
ExecReturn ==
    /\ exec.pc = "done"
    /\ exec' = ExecIdle
    /\ UNCHANGED <<sent, mask, sideVars, reqbox, inbox, nInjected, faulted>>
    /\ UNCHANGED <<runDoc, stepDoc, calls, handlers, auditAcked, pubCount, advances, noops,
                   orphanRun, reopened>>
    /\ UNCHANGED workerVars
    /\ UNCHANGED ingestVars

\* the task queue dispatches a task of some stage, under any settings of the worker
\* and with any failure ahead
TaskDispatch ==
    /\ exec.pc = "idle"
    /\ \E s \in WorkerStages, r \in RunIds, mode \in Modes, ordering \in BOOLEAN,
          audio \in BOOLEAN, dl \in DownloadFaults, fault2 \in LlmFaults :
            \E fault \in StageFaults(s) :
                ExecStart(s, r, mode, ordering, audio, dl, fault, fault2)

\* calls of the task executors, one at a time, under any settings and any failure
NextExec ==
    \/ TaskDispatch
    \/ TranscribeExec
    \/ RedactExec
    \/ \E compliant \in BOOLEAN : AuditExec(compliant)
    \/ \E ok \in BOOLEAN : ExecPublish(ok)
    \/ ExecReturn

SpecExec == Init /\ [][NextExec]_vars

\* ------------------------------------------------- redact: deterministic masking
\* REDACTION_SALT, the default of the environment variable
REDACTION_SALT == "dev-salt-change-in-prod"

\* entity types of detections (two of entities_to_detect)
EntityTypes == {"PERSON", "LOCATION"}

Alphabet == {"a", "b"}

\* transcripts: every text of TextLen characters
Texts == [1..TextLen -> Alphabet]

\* a RecognizerResult: start and end offsets (0-based, end exclusive) and entity_type
Spans ==
    {[start |-> a, end |-> b, entity_type |-> t] :
        a \in 0..(TextLen - 1), b \in 1..TextLen, t \in EntityTypes}

\* what the analyzer can return for a text: up to MaxSpans results, in any order
ResultLists ==
    UNION {{rs \in [1..n -> Spans] : \A i \in 1..n : rs[i].start < rs[i].end} :
             n \in 0..MaxSpans}

\* text[a:b] of Python
Slice(text, a, b) == SubSeq(text, a + 1, b)

\* "".join(chars)
RECURSIVE Join(_)
Join(chars) == IF chars = <<>> THEN "" ELSE Head(chars) \o Join(Tail(chars))

\* _deterministic_token; sha256(...).hexdigest()[:8] is taken as injective: the digest
\* is the string that is hashed
deterministic_token(entity_type, raw_text) ==
    "[" \o entity_type \o "_" \o REDACTION_SALT \o Join(raw_text) \o "]"

\* the sort key (r.start, r.end) of a is not above that of b
KeyLeq(a, b) == a.start < b.start \/ (a.start = b.start /\ a.end <= b.end)

\* x put into a sorted list behind every element whose key is not above its own
RECURSIVE InsertSorted(_, _)
InsertSorted(ordered, x) ==
    IF ordered = <<>> THEN <<x>>
    ELSE IF KeyLeq(Head(ordered), x) THEN <<Head(ordered)>> \o InsertSorted(Tail(ordered), x)
    ELSE <<x>> \o ordered

\* sorted(results, key=lambda r: (r.start, r.end)): a stable sort
RECURSIVE sorted(_)
sorted(results) ==
    IF results = <<>> THEN <<>>
    ELSE InsertSorted(sorted(SubSeq(results, 1, Len(results) - 1)), results[Len(results)])

\* the loop of _apply_deterministic_mask from the i-th result of ordered on: the pieces
\* appended to out, and the results a token was appended for
RECURSIVE MaskLoop(_, _, _, _)
MaskLoop(text, ordered, i, cursor) ==
    IF i > Len(ordered)
    THEN [out |-> Slice(text, cursor, Len(text)), emitted |-> <<>>]
    ELSE LET r == ordered[i]
         IN IF r.start < cursor
            THEN MaskLoop(text, ordered, i + 1, cursor)
            ELSE LET rest == MaskLoop(text, ordered, i + 1, r.end)
                 IN [out |-> Slice(text, cursor, r.start)
                               \o <<deterministic_token(r.entity_type,
                                                        Slice(text, r.start, r.end))>>
                               \o rest.out,
                     emitted |-> <<r>> \o rest.emitted]

\* _apply_deterministic_mask: the redacted text, as the list of its pieces
apply_deterministic_mask(text, results) == MaskLoop(text, sorted(results), 1, 0).out

\* a transcript and its detections, given to the masking
InitMask ==
    /\ InitPipeline
    /\ InitGateway
    /\ InitExec
    /\ include_session_in_idem = FALSE
    /\ failStage = None
    /\ gate = GateOff
    /\ areq = AuditIdle
    /\ loop = LoopIdle
    /\ redel = RedelOff
    /\ dup = DupOff
    /\ rreq = RedactIdle
    /\ \E text \in Texts, results \in ResultLists :
          mask = [MaskIdle EXCEPT !.pc = "in", !.text = text, !.results = results]

\* redact_with_idempotency with stable_masking: the text is masked
ApplyMask ==
    /\ mask.pc = "in"
    /\ mask' = [mask EXCEPT !.pc = "out",
                            !.out = apply_deterministic_mask(mask.text, mask.results),
                            !.emitted = MaskLoop(mask.text, sorted(mask.results), 1, 0).emitted]
    /\ UNCHANGED <<exec, sent, sideVars, reqbox, inbox, nInjected, faulted>>
    /\ UNCHANGED <<runDoc, stepDoc, calls, handlers, auditAcked, pubCount, advances, noops,
                   orphanRun, reopened>>
    /\ UNCHANGED workerVars
    /\ UNCHANGED ingestVars

\* a second redaction of the same transcript with the same detections
ApplyMaskAgain ==
    /\ mask.pc = "out"
    /\ mask' = [mask EXCEPT !.pc = "again",
                            !.out2 = apply_deterministic_mask(mask.text, mask.results)]
    /\ UNCHANGED <<exec, sent, sideVars, reqbox, inbox, nInjected, faulted>>
    /\ UNCHANGED <<runDoc, stepDoc, calls, handlers, auditAcked, pubCount, advances, noops,
                   orphanRun, reopened>>
    /\ UNCHANGED workerVars
    /\ UNCHANGED ingestVars

NextMask ==
    \/ ApplyMask
    \/ ApplyMaskAgain

SpecMask == InitMask /\ [][NextMask]_vars

\* ------------------------------------ orchestrator: events delivered repeatedly
\* the push subscription delivers an event at least once and in any order: any event of
\* a run, late, repeated or for a run that is not there, reaches POST /events/pubsub
DeliverEvent(e) ==
    /\ nInjected < MaxDeliver
    /\ e \notin inbox
    /\ inbox' = inbox \cup {e}
    /\ nInjected' = nInjected + 1
    /\ UNCHANGED <<runDoc, stepDoc, calls, handlers, auditAcked, reqbox, pubCount, advances, noops,
                   orphanRun, reopened, faulted>>
    /\ UNCHANGED workerVars
    /\ UNCHANGED ingestVars
    /\ UNCHANGED execVars

\* POST /run and the event handlers of the orchestrator under such deliveries
NextEvents ==
    \/ \E c \in 1..MaxCalls, i \in Inputs : CreateRunTx(c, i)
    \/ \E c \in 1..MaxCalls : CreateRunPublish(c)
    \/ \E h \in 1..MaxHandlers, m \in inbox : OnTranscribeCompleted(h, m)
    \/ \E h \in 1..MaxHandlers, m \in inbox : OnRedactCompleted(h, m)
    \/ \E h \in 1..MaxHandlers, m \in inbox : OnAuditCompleted(h, m)
    \/ \E h \in 1..MaxHandlers, m \in inbox : OnStepFailed(h, m)
    \/ \E h \in 1..MaxHandlers : OnStepFailedRun(h)
    \/ \E h \in 1..MaxHandlers : OrchPublish(h)
    \/ \E e \in EnvEvents : DeliverEvent(e)

SpecEvents == Init /\ [][NextEvents]_vars

\* ------------------------------------ gateway: the guard of the orchestrator call
\* outcomes of call_orchestrator inside the guarded section of pubsub_push
CallOutcomes == {"ok", "RetryableError", "PermanentError", "Exception"}

\* the handlers inside the guarded section, i.e. inside call_orchestrator
GateInside == {g \in DOMAIN gate.at : gate.at[g] = "inside"}

\* one gateway process whose handlers are past check-and-mark; the setting
\* orch_concurrency is any value up to the number of handlers
InitGate ==
    /\ InitPipeline
    /\ InitGateway
    /\ InitExec
    /\ mask = MaskIdle
    /\ include_session_in_idem = FALSE
    /\ failStage = None
    /\ areq = AuditIdle
    /\ loop = LoopIdle
    /\ redel = RedelOff
    /\ dup = DupOff
    /\ rreq = RedactIdle
    /\ \E n \in 1..MaxInside :
          gate = [orch_concurrency |-> n, value |-> n,
                  at |-> [g \in 1..MaxInside |-> "idle"]]

\* the frame of the actions of the guard
GateFrame ==
    /\ UNCHANGED <<exec, sent, mask, areq, loop, redel, dup, rreq>>
    /\ UNCHANGED <<reqbox, nInjected, faulted>>
    /\ UNCHANGED orchVars
    /\ UNCHANGED workerVars
    /\ UNCHANGED ingestVars

\* pubsub_push reaches 'async with app.state.orch_semaphore'
GateArrive(g) ==
    /\ gate.at[g] = "idle"
    /\ gate' = [gate EXCEPT !.at[g] = "waiting"]
    /\ GateFrame

\* Semaphore.acquire: returns when the value is positive, and decrements it
GateAcquire(g) ==
    /\ gate.at[g] = "waiting"
    /\ gate.value > 0
    /\ gate' = [gate EXCEPT !.at[g] = "inside", !.value = @ - 1]
    /\ GateFrame

\* the guarded section left with the semaphore released on success only
GateLeave_LeakOnError(g, outcome) ==
    /\ gate.at[g] = "inside"
    /\ gate' = [gate EXCEPT !.at[g] = outcome,
                            !.value = IF outcome = "ok" THEN @ + 1 ELSE @]
    /\ GateFrame

\* call_orchestrator returns or raises: 'async with' releases the semaphore on the way
\* out, whatever the outcome
GateLeave(g, outcome) ==
    /\ gate.at[g] = "inside"
    /\ gate' = [gate EXCEPT !.at[g] = outcome, !.value = @ + 1]
    /\ GateFrame

\* the handler has written the record and answered
GateAnswer(g) ==
    /\ gate.at[g] \in CallOutcomes
    /\ gate' = [gate EXCEPT !.at[g] = "idle"]
    /\ GateFrame

NextGate ==
    \/ \E g \in 1..MaxInside : GateArrive(g)
    \/ \E g \in 1..MaxInside : GateAcquire(g)
    \/ \E g \in 1..MaxInside, outcome \in CallOutcomes : GateLeave(g, outcome)
    \/ \E g \in 1..MaxInside : GateAnswer(g)

SpecGate == InitGate /\ [][NextGate]_vars

\* ------------------------------------------ compliance service: POST /audit
\* the transcripts given to POST /audit: texts of blanks and letters
AuditTexts == UNION {[1..n -> {" ", "a"}] : n \in 0..MaxAuditLen}

\* str.lstrip, str.rstrip and str.strip on a text
RECURSIVE lstrip(_)
lstrip(t) ==
    IF t = <<>> THEN <<>>
    ELSE IF Head(t) = " " THEN lstrip(Tail(t))
    ELSE t

RECURSIVE rstrip(_)
rstrip(t) ==
    IF t = <<>> THEN <<>>
    ELSE IF t[Len(t)] = " " THEN rstrip(SubSeq(t, 1, Len(t) - 1))
    ELSE t

strip(t) == rstrip(lstrip(t))

\* 'not req.transcript or not req.transcript.strip()'
EmptyTranscript(t) == t = <<>> \/ strip(t) = <<>>

\* what one model call, or the validation of its answer, can raise in POST /audit
AuditLlmFaults == LlmFaults \cup {"SchemaViolation"}

\* the answers that are not JSON or not of the required shape
InvalidAnswers == {"JSONDecodeError", "SchemaViolation"}

\* audit_request: the status of the response for what generate_audit_with_idempotency
\* raised; an exception that is neither RetryableError nor PermanentError is not caught
\* and the framework answers 500
AuditHttp(raised) ==
    IF raised = None THEN 200
    ELSE IF raised = "RetryableError" THEN 503
    ELSE IF raised = "PermanentError" THEN 422
    ELSE 500

\* one POST /audit request: its transcript, its X-Idempotency-Key header, and the
\* audit artifacts already stored
InitAudit ==
    /\ InitPipeline
    /\ InitGateway
    /\ InitExec
    /\ mask = MaskIdle
    /\ gate = GateOff
    /\ include_session_in_idem = FALSE
    /\ failStage = None
    /\ loop = LoopIdle
    /\ redel = RedelOff
    /\ dup = DupOff
    /\ rreq = RedactIdle
    /\ \E t \in AuditTexts, k \in {None, "k1"}, st \in SUBSET {"k1"} :
          areq = [AuditIdle EXCEPT !.pc = "start", !.transcript = t,
                                    !.idempotency_key = k, !.store = st, !.store0 = st]

\* the frame of the actions of POST /audit
AuditFrame ==
    /\ UNCHANGED <<exec, sent, mask, gate, loop, redel, dup, rreq>>
    /\ UNCHANGED <<reqbox, nInjected, faulted>>
    /\ UNCHANGED orchVars
    /\ UNCHANGED workerVars
    /\ UNCHANGED ingestVars

\* generate_audit_with_idempotency with the cache looked up before the transcript is
\* tested
AuditEntry_CacheFirst ==
    /\ areq.pc = "start"
    /\ areq' = IF areq.idempotency_key # None /\ areq.idempotency_key \in areq.store
                THEN [areq EXCEPT !.pc = "answer", !.lookups = @ + 1]
                ELSE IF EmptyTranscript(areq.transcript)
                THEN [areq EXCEPT !.pc = "answer", !.raised = "PermanentError",
                                   !.lookups = @ + 1]
                ELSE [areq EXCEPT !.pc = "llm", !.lookups = @ + 1]
    /\ AuditFrame

\* generate_audit_with_idempotency up to the model call: the transcript is tested, then
\* load_artifact looks the key up (no key: None without a read) and a hit is returned
AuditEntry ==
    /\ areq.pc = "start"
    /\ areq' = IF EmptyTranscript(areq.transcript)
                THEN [areq EXCEPT !.pc = "answer", !.raised = "PermanentError"]
                ELSE IF areq.idempotency_key # None
                        /\ areq.idempotency_key \in areq.store
                THEN [areq EXCEPT !.pc = "answer", !.lookups = @ + 1]
                ELSE [areq EXCEPT !.pc = "llm", !.lookups = @ + 1]
    /\ AuditFrame

\* one attempt of _call_llm_with_guardrails under its @retry: a RetryableError of the
\* first attempt is followed by a second attempt, a RetryableError of the second one
\* leaves as tenacity's RetryError, a PermanentError leaves at once
AuditLlmAttempt(fault) ==
    /\ areq.pc = "llm"
    /\ LET n == areq.llm_calls + 1
           r == llm_attempt(fault)
       IN areq' =
            [areq EXCEPT !.llm_calls = n,
                          !.faults = Append(@, fault),
                          !.pc = IF r = None THEN "save"
                                 ELSE IF r = "RetryableError" /\ n < 2 THEN "llm"
                                 ELSE "answer",
                          !.raised = IF r = "RetryableError"
                                     THEN (IF n < 2 THEN None ELSE "RetryError")
                                     ELSE r]
    /\ AuditFrame

\* save_artifact: written under the key, or skipped when there is no key
AuditSave ==
    /\ areq.pc = "save"
    /\ areq' = IF areq.idempotency_key = None
                THEN [areq EXCEPT !.pc = "answer"]
                ELSE [areq EXCEPT !.pc = "answer", !.writes = @ + 1,
                                   !.store = @ \cup {areq.idempotency_key}]
    /\ AuditFrame

\* audit_request answers
AuditAnswer ==
    /\ areq.pc = "answer"
    /\ areq' = [areq EXCEPT !.pc = "done", !.http = AuditHttp(areq.raised)]
    /\ AuditFrame

NextAudit ==
    \/ AuditEntry
    \/ \E fault \in AuditLlmFaults : AuditLlmAttempt(fault)
    \/ AuditSave
    \/ AuditAnswer

SpecAudit == InitAudit /\ [][NextAudit]_vars

\* ------------------------------------------------ the in-process retry loops
\* the three tenacity loops: the orchestrator's publish, the transcribe worker's
\* completion publish, the gateway's call of the orchestrator
LoopKinds == {"publish_event", "_publish_completed", "call_orchestrator"}

\* what one attempt of a loop can meet
AttemptOutcomes(kind) ==
    IF kind = "call_orchestrator"
    THEN {"ok", "RequestError", "sc5xx", "sc429", "sc400", "sc422"}
    ELSE {"ok", "RetryablePubsub", "Other"}

\* what the body of the 'with attempt' block raises for an outcome (None: it returns)
attempt_raises(kind, o) ==
    IF o = "ok" THEN None
    ELSE IF kind = "call_orchestrator"
    THEN (IF o \in {"RequestError", "sc5xx", "sc429"} THEN "RetryableError"
          ELSE "PermanentError")
    ELSE IF o = "RetryablePubsub" THEN "RetryablePubsub"
    ELSE IF kind = "publish_event" THEN "HTTPException422"
    ELSE "Other"

\* the exception classes each loop names as retried: RETRYABLE_PUBSUB_EXC for the two
\* publishes, (RetryableError, httpx.RequestError) for the call of the orchestrator
RetriedClasses(kind) ==
    IF kind = "call_orchestrator" THEN {"RetryableError", "RequestError"}
    ELSE {"RetryablePubsub"}

\* a retry predicate that accepts every exception
retry_if_exception_type_Any(kind, exc) ==
    exc # None

\* retry_if_exception_type of each loop
retry_if_exception_type(kind, exc) ==
    exc \in RetriedClasses(kind)

\* max_attempts = max(1, max_retries + 1)
MaxAttemptsOf(max_retries) == IF max_retries + 1 > 1 THEN max_retries + 1 ELSE 1

\* stop_after_attempt(max_attempts) | stop_after_delay(budget): late tells that the
\* time since the start has reached the budget
stop(max_retries, made, late) == made >= MaxAttemptsOf(max_retries) \/ late

\* one loop is entered, with any value of its max_retries setting
InitLoop ==
    /\ InitPipeline
    /\ InitGateway
    /\ InitExec
    /\ mask = MaskIdle
    /\ gate = GateOff
    /\ areq = AuditIdle
    /\ include_session_in_idem = FALSE
    /\ failStage = None
    /\ redel = RedelOff
    /\ dup = DupOff
    /\ rreq = RedactIdle
    /\ \E kind \in LoopKinds, n \in (0 - 1)..MaxRetries :
          loop = [LoopIdle EXCEPT !.pc = "running", !.kind = kind, !.max_retries = n]

\* the frame of the actions of a retry loop
LoopFrame ==
    /\ UNCHANGED <<exec, sent, mask, gate, areq, redel, dup, rreq>>
    /\ UNCHANGED <<reqbox, nInjected, faulted>>
    /\ UNCHANGED orchVars
    /\ UNCHANGED workerVars
    /\ UNCHANGED ingestVars

\* one iteration of AsyncRetrying with reraise=True: the attempt runs; it returns, or
\* its exception is not of a retried class and leaves the loop, or the stop condition
\* holds and the exception is raised again, or the loop sleeps and goes round
LoopAttempt(o, late) ==
    /\ loop.pc = "running"
    /\ o \in AttemptOutcomes(loop.kind)
    /\ LET exc == attempt_raises(loop.kind, o)
           made == loop.attempts + 1
           again == /\ exc # None
                    /\ retry_if_exception_type(loop.kind, exc)
                    /\ ~stop(loop.max_retries, made, late)
       IN loop' = [loop EXCEPT !.attempts = made,
                               !.met = Append(@, o),
                               !.tried = Append(@, exc),
                               !.late = late,
                               !.pc = IF again THEN "running" ELSE "done",
                               !.result = IF again THEN None
                                          ELSE IF exc = None THEN "ok" ELSE exc]
    /\ LoopFrame

NextLoop ==
    \E o \in {"ok", "RequestError", "sc5xx", "sc429", "sc400", "sc422",
              "RetryablePubsub", "Other"}, late \in BOOLEAN : LoopAttempt(o, late)

SpecLoop == InitLoop /\ [][NextLoop]_vars

\* ------------------------- gateway: notifications redelivered until they are acked
\* the outcomes of the guarded part of pubsub_push
PushOutcomes == {"ok", "permanent", "retryable"}

\* the record a handler writes for an outcome, and the status it answers with
OutcomeDoc(doc, o) ==
    IF o = "ok" THEN [doc EXCEPT !.status = "DONE"]
    ELSE IF o = "permanent" THEN [doc EXCEPT !.status = "FAILED_PERMANENT"]
    ELSE [doc EXCEPT !.status = "FAILED_TRANSIENT", !.attempt_count = @ + 1]

OutcomeHttp(o) == IF o = "retryable" THEN 500 ELSE 204

\* notifications of different objects, not yet delivered, their ingestion records absent
InitRedeliver ==
    /\ InitPipeline
    /\ InitGateway
    /\ InitExec
    /\ mask = MaskIdle
    /\ gate = GateOff
    /\ areq = AuditIdle
    /\ loop = LoopIdle
    /\ include_session_in_idem = FALSE
    /\ failStage = None
    /\ dup = DupOff
    /\ rreq = RedactIdle
    /\ redel = [n \in 1..MaxNotes |->
                   [doc |-> IngestAbsent, at |-> [g \in 1..MaxPush |-> "none"],
                    unacked |-> TRUE, http |-> 0, duplicates |-> 0, crashes |-> 0]]

\* the frame of the actions of the redelivered notification
RedelFrame ==
    /\ UNCHANGED <<exec, sent, mask, gate, areq, loop, dup, rreq>>
    /\ UNCHANGED <<reqbox, nInjected, faulted>>
    /\ UNCHANGED orchVars
    /\ UNCHANGED workerVars
    /\ UNCHANGED ingestVars

\* the subscription pushes the unacknowledged notification n to a free handler, which
\* runs _firestore_tx_check_and_mark: DUPLICATE is answered 204, and that acknowledges
\* the notification; PROCESS goes on to the orchestrator call
Redeliver(n, g) ==
    LET res == CheckAndMarkTx(redel[n].doc)
    IN /\ redel[n].unacked
       /\ redel[n].at[g] = "none"
       /\ res.action = "PROCESS" => redel[n].doc.attempt_count < MaxRedeliver
       /\ redel' = IF res.action = "DUPLICATE"
                   THEN [redel EXCEPT ![n].unacked = FALSE, ![n].http = 204,
                                      ![n].duplicates = IF @ < MaxRedeliver THEN @ + 1 ELSE @]
                   ELSE [redel EXCEPT ![n].doc = res.doc, ![n].at[g] = "call"]
       /\ RedelFrame

\* the handler gets through the orchestrator call and its except clauses: it writes the
\* record and answers; 204 acknowledges the notification, 500 leaves it to be redelivered
HandlerOutcome(n, g, o) ==
    /\ redel[n].at[g] = "call"
    /\ redel' = [redel EXCEPT ![n].doc = OutcomeDoc(@, o),
                              ![n].at[g] = "none",
                              ![n].http = OutcomeHttp(o),
                              ![n].unacked = IF OutcomeHttp(o) = 204 THEN FALSE ELSE @]
    /\ RedelFrame

\* the handler ends between check-and-mark and the write of an outcome (the instance is
\* stopped, or the request deadline cancels it): nothing is written, nothing answered
HandlerCrash(n, g) ==
    /\ redel[n].at[g] = "call"
    /\ redel' = [redel EXCEPT ![n].at[g] = "none",
                              ![n].crashes = IF @ < MaxRedeliver THEN @ + 1 ELSE @]
    /\ RedelFrame

NextRedeliver ==
    \/ \E n \in 1..MaxNotes, g \in 1..MaxPush : Redeliver(n, g)
    \/ \E n \in 1..MaxNotes, g \in 1..MaxPush, o \in PushOutcomes : HandlerOutcome(n, g, o)
    \/ \E n \in 1..MaxNotes, g \in 1..MaxPush : HandlerCrash(n, g)

\* the subscription keeps redelivering a notification that is not acknowledged, and a
\* handler that is running ends, with an outcome or without
SpecRedeliver ==
    /\ InitRedeliver
    /\ [][NextRedeliver]_vars
    /\ \A n \in 1..MaxNotes : WF_vars(\E g \in 1..MaxPush : Redeliver(n, g))
    /\ \A n \in 1..MaxNotes : \A g \in 1..MaxPush :
           WF_vars(HandlerCrash(n, g) \/ \E o \in PushOutcomes : HandlerOutcome(n, g, o))

\* ---------------------- transcribe worker: executions of one task that overlap
\* what speech-to-text returns for the audio of a run; two runs over the same audio
\* need not return the same text
SttOutputs == {"text one", "text two"}

\* an upload that keeps the object already stored at the path
Upload_NoReplace(store, path, content) ==
    store \cup {[path |-> path, content |-> content]}

\* blob.upload_from_string: the object at the path is created or replaced
Upload(store, path, content) ==
    {o \in store : o.path # path} \cup {[path |-> path, content |-> content]}

\* load_artifact: the object at the path, or None
Load(store, path) ==
    IF \E o \in store : o.path = path
    THEN (CHOOSE o \in store : o.path = path).content
    ELSE None

\* the orchestrator with a handler per delivery, no run yet, and the task's executions
\* not started
InitDup ==
    /\ runDoc = [r \in RunIds |-> RunAbsent]
    /\ stepDoc = [r \in RunIds |-> [s \in Stages |-> StepAbsent]]
    /\ calls = [c \in 1..MaxCalls |-> IdleCall]
    /\ handlers = [h \in 1..MaxExecs |-> IdleHandler]
    /\ inbox = {}
    /\ auditAcked = {}
    /\ reqbox = {}
    /\ pubCount = [r \in RunIds |-> [s \in Stages |-> 0]]
    /\ advances = [r \in RunIds |-> [s \in Stages |-> 0]]
    /\ noops = [r \in RunIds |-> [s \in Stages |-> 0]]
    /\ tasks = [r \in RunIds |-> [s \in WorkerStages |-> "none"]]
    /\ invoked = [r \in RunIds |-> [s \in WorkerStages |-> 0]]
    /\ artifacts = [r \in RunIds |-> [s \in Stages |-> "absent"]]
    /\ nCreated = [r \in RunIds |-> [s \in WorkerStages |-> 0]]
    /\ swallowed = {}
    /\ strays = {}
    /\ orphanRun = {}
    /\ reopened = {}
    /\ nInjected = 0
    /\ faulted = FALSE
    /\ InitGateway
    /\ InitExec
    /\ mask = MaskIdle
    /\ gate = GateOff
    /\ areq = AuditIdle
    /\ loop = LoopIdle
    /\ redel = RedelOff
    /\ include_session_in_idem = FALSE
    /\ failStage = None
    /\ rreq = RedactIdle
    /\ dup = [store |-> {}, pending |-> 0, published |-> 0,
              ex |-> [e \in 1..MaxExecs |->
                        [pc |-> "idle", run_id |-> None, missed |-> FALSE, resp |-> None]]]

\* the frame of the steps of an execution
DupFrame ==
    /\ UNCHANGED <<exec, sent, mask, gate, areq, loop, redel, rreq>>
    /\ UNCHANGED <<reqbox, nInjected, faulted>>
    /\ UNCHANGED workerVars
    /\ UNCHANGED ingestVars

\* POST /tasks/transcribe is called for the task of a run whose transcribe.requested
\* was published (Cloud Tasks may call the handler of one task more than once)
DupStart(e, r) ==
    /\ dup.ex[e].pc = "idle"
    /\ Request("transcribe", r) \in reqbox
    /\ dup' = [dup EXCEPT !.ex[e].pc = "load", !.ex[e].run_id = r]
    /\ DupFrame
    /\ UNCHANGED orchVars

\* transcribe_with_idempotency: load_artifact(idempotency_key), a hit is returned
DupLoad(e) ==
    LET cached == Load(dup.store, artifact_blob_path("transcribe", dup.ex[e].run_id))
    IN /\ dup.ex[e].pc = "load"
       /\ dup' = IF cached # None
                 THEN [dup EXCEPT !.ex[e].pc = "emit", !.ex[e].resp = cached]
                 ELSE [dup EXCEPT !.ex[e].pc = "work", !.ex[e].missed = TRUE]
       /\ DupFrame
       /\ UNCHANGED orchVars

\* transcribe_with_idempotency: the audio is downloaded and transcribed
DupTranscribe(e, text) ==
    /\ dup.ex[e].pc = "work"
    /\ dup' = [dup EXCEPT !.ex[e].pc = "save", !.ex[e].resp = text]
    /\ DupFrame
    /\ UNCHANGED orchVars

\* transcribe_with_idempotency: save_artifact(idempotency_key, resp)
DupSave(e) ==
    /\ dup.ex[e].pc = "save"
    /\ dup' = [dup EXCEPT !.ex[e].pc = "emit",
                          !.store = Upload(@, artifact_blob_path("transcribe", dup.ex[e].run_id),
                                           dup.ex[e].resp)]
    /\ DupFrame
    /\ UNCHANGED orchVars

\* _process_transcription_task: transcribe.completed is published; the handler answers
DupPublish(e) ==
    /\ dup.ex[e].pc = "emit"
    /\ dup' = [dup EXCEPT !.ex[e].pc = "done", !.pending = @ + 1, !.published = @ + 1]
    /\ DupFrame
    /\ UNCHANGED orchVars

\* the subscription pushes a published completion to the orchestrator
DupDeliver(r) ==
    /\ dup.pending > 0
    /\ CompletionEvent("transcribe", r) \notin inbox
    /\ \E e \in 1..MaxExecs : dup.ex[e].pc = "done" /\ dup.ex[e].run_id = r
    /\ inbox' = inbox \cup {CompletionEvent("transcribe", r)}
    /\ dup' = [dup EXCEPT !.pending = @ - 1]
    /\ DupFrame
    /\ UNCHANGED <<runDoc, stepDoc, calls, handlers, auditAcked, pubCount, advances, noops,
                   orphanRun, reopened>>

NextDup ==
    \/ \E c \in 1..MaxCalls, i \in Inputs : CreateRunTx(c, i)
    \/ \E c \in 1..MaxCalls : CreateRunPublish(c)
    \/ \E e \in 1..MaxExecs, r \in RunIds : DupStart(e, r)
    \/ \E e \in 1..MaxExecs : DupLoad(e)
    \/ \E e \in 1..MaxExecs, text \in SttOutputs : DupTranscribe(e, text)
    \/ \E e \in 1..MaxExecs : DupSave(e)
    \/ \E e \in 1..MaxExecs : DupPublish(e)
    \/ \E r \in RunIds : DupDeliver(r)
    \/ \E h \in 1..MaxExecs, m \in inbox : OnTranscribeCompleted(h, m)
    \/ \E h \in 1..MaxExecs : OrchPublish(h)

SpecDup == InitDup /\ [][NextDup]_vars

\* ------------------------------------------------ privacy service: POST /redact
\* the keys a request can name, in its body (idem_key) and in its X-Idempotency-Key
\* header; "" is the empty string and None a header that is not sent
RedactKeys == {"k1", "k2"}

\* what artifacts/<k>/transcript.json can be: no object, a transcription without text,
\* a transcription with text
TranscriptStates == {"absent", "empty", "text"}

\* redact_text: the status of the response for what redact_with_idempotency raised
RedactHttp(raised) ==
    IF raised = None THEN 200
    ELSE IF raised = "RetryableError" THEN 503
    ELSE 422

\* one POST /redact request and the transcripts stored when it arrives
InitRedact ==
    /\ InitPipeline
    /\ InitGateway
    /\ InitExec
    /\ mask = MaskIdle
    /\ gate = GateOff
    /\ areq = AuditIdle
    /\ loop = LoopIdle
    /\ redel = RedelOff
    /\ dup = DupOff
    /\ include_session_in_idem = FALSE
    /\ failStage = None
    /\ \E k \in RedactKeys \cup {""}, b \in {"", "B"}, x \in RedactKeys \cup {None, ""},
          ts \in [RedactKeys -> TranscriptStates] :
          rreq = [RedactIdle EXCEPT !.pc = "start", !.idem_key = k, !.bucket = b,
                                    !.x_idempotency_key = x, !.transcripts = ts]

\* the frame of the actions of POST /redact
RedactFrame ==
    /\ UNCHANGED <<exec, sent, mask, gate, areq, loop, redel, dup>>
    /\ UNCHANGED <<reqbox, nInjected, faulted>>
    /\ UNCHANGED orchVars
    /\ UNCHANGED workerVars
    /\ UNCHANGED ingestVars

\* redact_with_idempotency up to the detection: the body's idem_key and bucket are
\* tested, artifacts/<req.idem_key>/transcript.json is downloaded (a missing object
\* raises, and every exception but RetryableError leaves as PermanentError), an empty
\* text is refused
RedactEntry ==
    /\ rreq.pc = "start"
    /\ rreq' = IF rreq.idem_key = "" \/ rreq.bucket = ""
               THEN [rreq EXCEPT !.pc = "answer", !.raised = "PermanentError"]
               ELSE IF rreq.transcripts[rreq.idem_key] # "text"
               THEN [rreq EXCEPT !.pc = "answer", !.raised = "PermanentError",
                                 !.read = artifact_blob_path("transcribe", rreq.idem_key)]
               ELSE [rreq EXCEPT !.pc = "detect",
                                 !.read = artifact_blob_path("transcribe", rreq.idem_key)]
    /\ RedactFrame

\* the analyzer and the masking run
RedactDetect(fault) ==
    /\ rreq.pc = "detect"
    /\ rreq' = IF redact_with_idempotency(TRUE, fault) = None
               THEN [rreq EXCEPT !.pc = "save"]
               ELSE [rreq EXCEPT !.pc = "answer",
                                 !.raised = redact_with_idempotency(TRUE, fault)]
    /\ RedactFrame

\* save_artifact(idempotency_key, resp) with the header's key: nothing is written when
\* the key is missing or empty
RedactSave ==
    /\ rreq.pc = "save"
    /\ rreq' = IF rreq.x_idempotency_key \in {None, ""}
               THEN [rreq EXCEPT !.pc = "answer"]
               ELSE [rreq EXCEPT !.pc = "answer",
                                 !.store = @ \cup {artifact_blob_path("redact",
                                                       rreq.x_idempotency_key)}]
    /\ RedactFrame

\* redact_text answers
RedactAnswer ==
    /\ rreq.pc = "answer"
    /\ rreq' = [rreq EXCEPT !.pc = "done", !.http = RedactHttp(rreq.raised)]
    /\ RedactFrame

NextRedact ==
    \/ RedactEntry
    \/ \E fault \in DetectFaults : RedactDetect(fault)
    \/ RedactSave
    \/ RedactAnswer

SpecRedact == InitRedact /\ [][NextRedact]_vars

\* ------------------------------------------------------------------- claims
\* the transaction of POST /run call c committed (the call is past line 205)
TxCommitted(c) ==
    \/ calls[c].pc = "publish"
    \/ calls[c].pc = "done" /\ (calls[c].http = 200 \/ calls[c].created)

\* nothing is on its way for run r: no event or request in flight, no handler, call or
\* task of the run still has a step to take
Quiescent(r) ==
    /\ \A m \in inbox : m.run_id # r
    /\ \A m \in reqbox : m.run_id # r
    /\ \A h \in 1..MaxHandlers : handlers[h].pc = "idle" \/ handlers[h].msg.run_id # r
    /\ \A c \in 1..MaxCalls : calls[c].pc = "publish" => calls[c].run_id # r
    /\ \A s \in WorkerStages : tasks[r][s] \notin {"queued", "publishing"}

RunCreated(r) == \E c \in 1..MaxCalls : calls[c].run_id = r /\ calls[c].created

\* C1: among the POST /run calls for one input whose transaction committed, exactly one
\* wrote the run document (RUNNING) and the transcribe step (PENDING) and returned
\* created=true; every other one returned created=false with the same run_id and wrote
\* nothing (the run document not having been written first by an event handler)
C1_CreateRunOnce ==
    \A r \in RunIds :
        LET done == {c \in 1..MaxCalls : TxCommitted(c) /\ calls[c].run_id = r}
            winners == {c \in done : calls[c].created}
        IN /\ Cardinality(winners) <= 1
           /\ (done # {} /\ r \notin orphanRun) =>
                  /\ Cardinality(winners) = 1
                  /\ runDoc[r].status # "ABSENT"
                  /\ stepDoc[r]["transcribe"].status # "ABSENT"
           /\ \A c \in done :
                  IF calls[c].created
                  THEN calls[c].wrote = <<"RUNNING", "PENDING">>
                  ELSE calls[c].wrote = <<>>

C1_Witness ==
    \E c1, c2 \in 1..MaxCalls :
        /\ c1 # c2
        /\ TxCommitted(c1) /\ TxCommitted(c2)
        /\ calls[c1].run_id = calls[c2].run_id
        /\ calls[c1].created /\ ~calls[c2].created
        /\ calls[c2].http = 200

C3_HappyPath ==
    \A r \in RunIds :
        (/\ ~faulted /\ nInjected = 0
         /\ RunCreated(r)
         /\ Quiescent(r)
         /\ artifacts[r]["audit"] = "compliant") =>
            /\ \A s \in Stages : stepDoc[r][s].status = "COMPLETED"
            /\ runDoc[r].status = "COMPLETED" /\ runDoc[r].outcome = "PASS"

\* C4: a completion is applied only after the completions of all earlier stages: a
\* stage record is COMPLETED only if the record of the stage before it is
C4_InOrder ==
    \A r \in RunIds : \A k \in 2..Len(StageSeq) :
        (RunCreated(r) /\ reopened = {} /\ stepDoc[r][StageSeq[k]].status = "COMPLETED") =>
            stepDoc[r][StageSeq[k - 1]].status = "COMPLETED"

\* C5: a run's outcome is PASS only when the soap stage record is COMPLETED
C5_PassOnlyAfterSoap ==
    \A r \in RunIds :
        (RunCreated(r) /\ runDoc[r].outcome = "PASS") =>
            stepDoc[r]["soap"].status = "COMPLETED"

\* C6: audit fail branch: once the orchestrator has answered the audit worker's
\* completion event of a run whose audit artifact is non-compliant, the run is
\* {COMPLETED, FAIL}, no soap.requested was published, and there is neither a soap stage
\* record nor a soap artifact
C6_AuditFailBranch ==
    \A r \in RunIds :
        (/\ nInjected = 0
         /\ artifacts[r]["audit"] = "noncompliant"
         /\ r \in auditAcked) =>
            /\ runDoc[r].status = "COMPLETED" /\ runDoc[r].outcome = "FAIL"
            /\ pubCount[r]["soap"] = 0
            /\ stepDoc[r]["soap"].status = "ABSENT"
            /\ artifacts[r]["soap"] = "absent"

\* C7: no event delivered to the orchestrator changes a stage record of a created run
\* that is COMPLETED
C7_CompletedIsFinal ==
    [][\A r \in RunIds : \A s \in Stages :
          (RunCreated(r) /\ calls' = calls /\ stepDoc[r][s].status = "COMPLETED") =>
              stepDoc'[r][s].status = "COMPLETED"]_vars

\* C8: once a run is FAILED, no event makes the orchestrator produce a stage request
C8_NoAdvanceAfterFailed ==
    [][\A r \in RunIds :
          (RunCreated(r) /\ runDoc[r].status = "FAILED") => advances'[r] = advances[r]]_vars

\* C9: a stage task that ended with PermanentError (422, not retried) leaves, once
\* nothing is left to do for the run, the run FAILED and that stage's record FAILED
C9_PermanentFailureFinalizes ==
    \A r \in RunIds : \A s \in WorkerStages :
        (nInjected = 0 /\ tasks[r][s] = "dead" /\ Quiescent(r)) =>
            /\ runDoc[r].status = "FAILED"
            /\ stepDoc[r][s].status = "FAILED"

\* C10: no stage request is lost: once the orchestrator has committed transcribe
\* (redact) as COMPLETED and no delivery of that completion is outstanding, the
\* next-stage request has been published
C10_NoRequestLost ==
    \A r \in RunIds : \A k \in 1..2 :
        (/\ RunCreated(r)
         /\ reopened = {}
         /\ stepDoc[r][StageSeq[k]].status = "COMPLETED"
         /\ \A m \in inbox : ~(m.run_id = r /\ m.event_type = CompletedType(StageSeq[k]))
         /\ \A h \in 1..MaxHandlers : handlers[h].pc = "idle") =>
            pubCount[r][StageSeq[k + 1]] >= 1

\* C11: a created run whose caller retried POST /run until it was answered 200, no call
\* being still on its way to the publish, has had transcribe.requested published
C11_RetryRepublishes ==
    \A r \in RunIds :
        (/\ RunCreated(r)
         /\ \A c \in 1..MaxCalls : calls[c].pc # "publish"
         /\ \E c \in 1..MaxCalls :
                calls[c].run_id = r /\ calls[c].pc = "done" /\ calls[c].http = 200) =>
            pubCount[r]["transcribe"] >= 1

\* C12: transcribe.requested is published only by a POST /run call whose transaction
\* returned created=true, as that call's last step, and carries ordering key = run_id;
\* a call that returned created=false never reaches the publish
C12_PublishOnlyWhenCreated ==
    /\ [](/\ \A m \in reqbox :
                m.event_type = "transcribe.requested" => m.ordering_key = m.run_id
           /\ \A c \in 1..MaxCalls : calls[c].pc = "publish" => calls[c].created)
    /\ [][\A r \in RunIds :
              pubCount'[r]["transcribe"] # pubCount[r]["transcribe"] =>
                  \E c \in 1..MaxCalls :
                      /\ calls[c].pc = "publish" /\ calls'[c].pc = "done"
                      /\ calls[c].created /\ calls[c].run_id = r
                      /\ \E m \in reqbox' :
                             /\ m.event_type = "transcribe.requested"
                             /\ m.run_id = r /\ m.ordering_key = r]_vars

C12_Witness ==
    \E c1, c2 \in 1..MaxCalls :
        /\ calls[c1].pc = "done" /\ calls[c1].created /\ calls[c1].http = 200
        /\ calls[c2].pc = "done" /\ ~calls[c2].created /\ calls[c2].http = 200
        /\ calls[c1].run_id = calls[c2].run_id
        /\ pubCount[calls[c1].run_id]["transcribe"] = 1

\* the gateway requests that are past check-and-mark for idem_key k
Marked(k) ==
    {g \in 1..MaxPush : push[g].pc \in {"call", "wait"} /\ IdemKeyOf(push[g].note) = k}

\* the step is gateway request g leaving pubsub_push's check-and-mark
Delivered(g) == push[g].pc = "idle" /\ push'[g].pc # "idle"

\* the step is gateway request g answering after it called the orchestrator
Answered(g) == push[g].pc \in {"call", "wait"} /\ push'[g].pc = "done"

\* C13: for every idem_key, in any interleaving of deliveries: at most one gateway
\* request is past check-and-mark, and while one is the record is PROCESSING; the
\* ingestion record exists once a delivery was handled; among the POST /run calls made
\* for the key at most one returned created=true
C13_SingleMarker ==
    \A k \in IdemKeys :
        /\ Cardinality(Marked(k)) <= 1
        /\ Marked(k) # {} => ingDoc[k].status = "PROCESSING"
        /\ (\E g \in 1..MaxPush : push[g].pc # "idle" /\ IdemKeyOf(push[g].note) = k) =>
               ingDoc[k].status # "ABSENT"
        /\ Cardinality({c \in 1..MaxCalls :
                           /\ caller[c] # 0
                           /\ IdemKeyOf(push[caller[c]].note) = k
                           /\ calls[c].created}) <= 1

C13_Witness ==
    \E g1, g2 \in 1..MaxPush :
        /\ g1 # g2
        /\ push[g1].note = push[g2].note
        /\ push[g1].pc = "wait" /\ calls[push[g1].slot].created
        /\ push[g2].pc = "done" /\ push[g2].err = "duplicate"

\* C14: a delivery that finds the record PROCESSING, DONE or FAILED_PERMANENT is answered
\* 204 at once, changes neither the ingestion record nor any POST /run request, and
\* never calls the orchestrator
C14_DuplicateNoEffect ==
    /\ [][\A g \in 1..MaxPush :
              (/\ Delivered(g)
               /\ ingDoc[IdemKeyOf(push'[g].note)].status
                      \in {"PROCESSING", "DONE", "FAILED_PERMANENT"}) =>
                  /\ push'[g].pc = "done" /\ push'[g].http = 204
                  /\ push'[g].attempts = 0
                  /\ ingDoc' = ingDoc
                  /\ calls' = calls /\ caller' = caller]_vars
    /\ [](\A g \in 1..MaxPush :
              push[g].err = "duplicate" => \A c \in 1..MaxCalls : caller[c] # g)

C14_Witness ==
    \E g \in 1..MaxPush :
        /\ push[g].pc = "done" /\ push[g].err = "duplicate" /\ push[g].http = 204
        /\ ingDoc[IdemKeyOf(push[g].note)].status = "FAILED_PERMANENT"

\* C15: a gateway request whose orchestrator call ended on a network error, a timeout,
\* 429, 5xx or an unknown exception leaves the record FAILED_TRANSIENT and answers 500;
\* a delivery that finds the record FAILED_TRANSIENT sets it PROCESSING, counts the
\* attempt and enters the orchestrator call
C15_TransientRetried ==
    [][\A g \in 1..MaxPush :
          /\ (Answered(g) /\ (push'[g].sc \in {0, 429} \/ push'[g].sc >= 500)) =>
                 /\ push'[g].http = 500
                 /\ ingDoc'[IdemKeyOf(push[g].note)].status = "FAILED_TRANSIENT"
          /\ (Delivered(g)
                 /\ ingDoc[IdemKeyOf(push'[g].note)].status = "FAILED_TRANSIENT") =>
                 /\ push'[g].pc = "call"
                 /\ ingDoc'[IdemKeyOf(push'[g].note)].status = "PROCESSING"
                 /\ ingDoc'[IdemKeyOf(push'[g].note)].attempt_count
                        = ingDoc[IdemKeyOf(push'[g].note)].attempt_count + 1]_vars

C15_Witness ==
    \E g1, g2 \in 1..MaxPush :
        /\ push[g1].note = push[g2].note
        /\ push[g1].pc = "done" /\ push[g1].http = 500 /\ push[g1].sc = 503
        /\ push[g2].pc = "wait"
        /\ ingDoc[IdemKeyOf(push[g2].note)].status = "PROCESSING"
        /\ ingDoc[IdemKeyOf(push[g2].note)].attempt_count = 3

\* C16: a gateway request whose orchestrator call was answered 4xx (other than 429)
\* ended as a permanent failure, acked 204 with the record FAILED_PERMANENT; and a DONE
\* record implies that the run document exists
C16_PermanentOn4xx ==
    /\ \A g \in 1..MaxPush :
           (push[g].pc = "done" /\ push[g].sc \in (400..499) \ {429}) =>
               /\ push[g].err = "permanent" /\ push[g].http = 204
               /\ ingDoc[IdemKeyOf(push[g].note)].status = "FAILED_PERMANENT"
    /\ \A n \in Notes :
           ingDoc[IdemKeyOf(n)].status = "DONE" =>
               runDoc[RunIdOf(RunCreate(orch_body(n)))].status # "ABSENT"

\* C17: the run_id create_run computes from a gateway request equals the gateway's
\* idem_key for the notification
C17_RunIdIsIdemKey ==
    \A c \in 1..MaxCalls :
        (caller[c] # 0 /\ calls[c].pc # "idle") =>
            calls[c].run_id = IdemKeyOf(push[caller[c]].note)

\* C18: an execution of a stage task that finds the stage's artifact stored does not
\* invoke the business function and goes on to publish the completion, whether or not
\* the artifact of the stage before can still be read
C18_ShortCircuit ==
    [][\A r \in RunIds : \A s \in WorkerStages :
          (/\ tasks[r][s] = "queued" /\ tasks'[r][s] # "queued"
           /\ artifacts[r][s] # "absent") =>
              /\ tasks'[r][s] = "publishing"
              /\ invoked'[r][s] = invoked[r][s]]_vars

\* C19: when the completion publish of a stage ran out of attempts and nothing else
\* failed, once the stage's task has ended and nothing is left to do for the run, the
\* business function was invoked once in total and the orchestrator has advanced the
\* stage, once
C19_PublishRetryAdvancesOnce ==
    \A r \in RunIds :
        (/\ failStage \in WorkerStages
         /\ faulted
         /\ tasks[r][failStage] = "done"
         /\ Quiescent(r)) =>
            /\ invoked[r][failStage] = 1
            /\ stepDoc[r][failStage].status = "COMPLETED"
            /\ failStage \in {"transcribe", "redact"} => advances[r][failStage] = 1

\* the stage a <stage>.requested event is the request of
StageOf(m) == CHOOSE s \in Stages : RequestedType(s) = m.event_type

\* C20: any number of deliveries of <stage>.requested for a run create at most one task,
\* the one named <stage>-<run_id>; a delivery that is acked creates the task when the
\* name is new and otherwise, AlreadyExists being swallowed, changes nothing; a task is
\* created by such a delivery only; an event of another type is acked with nothing
\* enqueued
C20_EnqueueOnce ==
    /\ [](\A r \in RunIds : \A s \in WorkerStages :
              /\ nCreated[r][s] <= 1
              /\ nCreated[r][s] = 1 <=> tasks[r][s] # "none")
    /\ [][\A m \in reqbox \ reqbox' :
              LET s == StageOf(m)
                  r == m.run_id
              IN IF tasks[r][s] = "none"
                 THEN /\ tasks' = [tasks EXCEPT ![r][s] = "queued"]
                      /\ nCreated' = [nCreated EXCEPT ![r][s] = 1]
                 ELSE tasks' = tasks /\ nCreated' = nCreated]_vars
    /\ [][nCreated' # nCreated => reqbox' # reqbox /\ reqbox' \subseteq reqbox]_vars
    /\ [][(strays' # strays /\ strays' \subseteq strays) =>
              tasks' = tasks /\ nCreated' = nCreated]_vars

C20_Witness ==
    \E r \in RunIds : \E s \in WorkerStages :
        /\ <<r, s>> \in swallowed
        /\ nCreated[r][s] = 1
        /\ tasks[r][s] = "done"
        /\ Request(s, r) \notin reqbox

\* C21: a task executor answers 422 exactly when the stage raised PermanentError, 503
\* when it raised RetryableError or any other exception and 200 when nothing was
\* raised; in Pub/Sub mode the step that answers 200 is the publish of the stage's
\* completion event
C21_TaskAnswer ==
    /\ [](exec.pc = "done" =>
              /\ exec.http = 422 <=> exec.raised = "PermanentError"
              /\ exec.raised \notin {None, "PermanentError"} => exec.http = 503
              /\ exec.http = 200 <=> exec.raised = None)
    /\ [][(exec.pc # "done" /\ exec'.pc = "done" /\ exec'.http = 200
           /\ exec.mode = "pubsub") =>
              /\ exec.pc = "publish"
              /\ Completed(exec.stage, exec.run_id, "pubsub",
                           PublishKey(exec.stage, exec.ordering, exec.run_id)) \in sent'
                 ]_vars

C21_Witness ==
    /\ exec.pc = "done"
    /\ exec.http = 422
    /\ exec.stage = "audit"
    /\ \E e \in sent : e.via = "pubsub" /\ e.step = "redact"

\* C22: when the inner call of a stage's business function (speech-to-text, PHI
\* detection, the last attempt of the LLM call) was reached and raised an exception of
\* unknown kind, the executor did not raise PermanentError and answered 503
C22_UnknownIsRetryable ==
    LET r == exec.run_id
        reached ==
            \/ /\ exec.stage = "transcribe"
               /\ artifacts[r]["transcribe"] = "absent" /\ exec.audio /\ exec.dl = None
               /\ exec.fault = "Unknown"
            \/ /\ exec.stage = "redact"
               /\ artifacts[r]["redact"] = "absent" /\ artifacts[r]["transcribe"] # "absent"
               /\ exec.fault = "Unknown"
            \/ /\ exec.stage = "audit"
               /\ artifacts[r]["audit"] = "absent" /\ artifacts[r]["redact"] # "absent"
               /\ exec.fault2 = "Unknown"
    IN (exec.pc = "done" /\ reached) =>
           /\ exec.raised # "PermanentError"
           /\ exec.http = 503

\* C23: when the executor of a stage whose own artifact is not stored finds the
\* artifact of the stage before missing (the audio object for transcribe, the
\* transcript for redact, the redacted artifact for audit), it raises PermanentError
\* and answers 422
C23_MissingInputPermanent ==
    LET r == exec.run_id
        missing ==
            \/ /\ exec.stage = "transcribe"
               /\ artifacts[r]["transcribe"] = "absent" /\ ~exec.audio
            \/ /\ exec.stage = "redact"
               /\ artifacts[r]["redact"] = "absent" /\ artifacts[r]["transcribe"] = "absent"
            \/ /\ exec.stage = "audit"
               /\ artifacts[r]["audit"] = "absent" /\ artifacts[r]["redact"] = "absent"
    IN (exec.pc = "done" /\ missing) =>
           /\ exec.raised = "PermanentError"
           /\ exec.http = 422

C25_SoapFinalizes ==
    [][\A m \in inbox \ inbox' :
          m.event_type = "soap.completed" =>
              /\ stepDoc'[m.run_id]["soap"].status = "COMPLETED"
              /\ runDoc'[m.run_id].status = "COMPLETED"
              /\ runDoc'[m.run_id].outcome = "PASS"]_vars

\* C26: no completion event a stage worker sends carries stage output content: the
\* values of its artifacts map are the run id (cache key), artifact paths and flags
C26_ReferencesOnly ==
    \A e \in sent :
        \A kv \in e.artifacts :
            /\ kv[2] \notin {Transcript(r) : r \in RunIds}
            /\ \/ kv[2] = e.run_id
               \/ kv[2] \in {artifact_blob_path(s, e.run_id) : s \in WorkerStages}
               \/ kv[2] \in {"true", "false"}

\* C27: every event published to Pub/Sub, by a stage worker or by the orchestrator,
\* carries ordering_key = its run_id, whatever the settings
C27_OrderingKey ==
    /\ \A e \in sent : e.via = "pubsub" => e.ordering_key = e.run_id
    /\ \A m \in reqbox : m.ordering_key = m.run_id

\* the tokens of a masked text, in the order they stand in it
TokensOf(out) == SelectSeq(out, LAMBDA piece : piece \notin Alphabet)

\* C28: with the salt fixed, a second redaction of the same transcript with the same
\* detections gives the same masked text, and any two masked occurrences of the same
\* span text in one document are replaced by the same token
C28_DeterministicMasking ==
    /\ mask.pc = "again" => mask.out2 = mask.out
    /\ mask.pc \in {"out", "again"} =>
           \A i \in 1..Len(mask.emitted) : \A j \in 1..Len(mask.emitted) :
               Slice(mask.text, mask.emitted[i].start, mask.emitted[i].end)
                 = Slice(mask.text, mask.emitted[j].start, mask.emitted[j].end)
               => TokensOf(mask.out)[i] = TokensOf(mask.out)[j]

\* two detections share a character
Overlap(x, y) == x.start < y.end /\ y.start < x.end

\* detection x covers detection y and more
Contains(x, y) ==
    /\ x.start <= y.start /\ y.end <= x.end
    /\ x.start < y.start \/ y.end < x.end

\* C29: the masked spans are emitted left to right and do not overlap; of two
\* overlapping detections at most one is emitted, and when all detections overlap one
\* another exactly one is; a detection that lies inside another one (also when both
\* start at the same offset) is dropped, and the outer one is emitted when it covers
\* every other detection
C29_OverlapResolution ==
    LET n == Len(mask.results)
        det == {mask.results[k] : k \in 1..n}
        em == {mask.emitted[k] : k \in 1..Len(mask.emitted)}
    IN mask.pc \in {"out", "again"} =>
        /\ \A i \in 1..Len(mask.emitted) : \A j \in 1..Len(mask.emitted) :
               i < j => mask.emitted[i].end <= mask.emitted[j].start
        /\ em \subseteq det
        /\ (n > 0 /\ \A x \in det : \A y \in det : Overlap(x, y)) => Len(mask.emitted) = 1
        /\ \A x \in det : \A y \in det :
               Contains(x, y) =>
                   /\ y \notin em
                   /\ (\A z \in det \ {x} : Contains(x, z)) => x \in em

C31_ConcurrencyCap ==
    /\ [](/\ Cardinality(GateInside) <= gate.orch_concurrency
          /\ gate.value + Cardinality(GateInside) = gate.orch_concurrency)
    /\ [][\A g \in 1..MaxInside :
              (gate.at[g] = "inside" /\ gate'.at[g] # "inside") =>
                  /\ gate'.at[g] \in CallOutcomes
                  /\ gate'.value = gate.value + 1]_vars

\* the cap is reached with a handler waiting, after a handler left on an exception
C31_Witness ==
    /\ gate.orch_concurrency < MaxInside
    /\ gate.value = 0
    /\ \E g \in 1..MaxInside : gate.at[g] = "waiting"
    /\ \E g \in 1..MaxInside : gate.at[g] = "Exception"
    /\ \E g \in 1..MaxInside : gate.at[g] = "inside"

\* C32: a POST /audit whose transcript is empty or only whitespace is answered 422
\* without a cache lookup, a model call or an artifact write, and the audit artifacts
\* are as they were before the request
C32_EmptyTranscriptRejected ==
    (areq.pc # "idle" /\ EmptyTranscript(areq.transcript)) =>
        /\ areq.lookups = 0
        /\ areq.llm_calls = 0
        /\ areq.writes = 0
        /\ areq.store = areq.store0
        /\ areq.pc = "done" => areq.http = 422

\* a whitespace-only transcript was answered although an audit is cached under the key
C32_Witness ==
    /\ areq.pc = "done"
    /\ areq.transcript # <<>>
    /\ EmptyTranscript(areq.transcript)
    /\ areq.idempotency_key \in areq.store
    /\ areq.http = 422

\* C33: in POST /audit an answer of the model that is not JSON or not of the required
\* shape is followed by a second model call, and the request is answered 422 when the
\* second answer is invalid too; retryable failures of both calls are answered 503; the
\* model is called at most twice
C33_InvalidAnswerRetried ==
    /\ areq.llm_calls <= 2
    /\ areq.pc = "done" =>
        /\ (areq.faults # <<>> /\ areq.faults[1] \in InvalidAnswers) =>
               areq.llm_calls = 2
        /\ (Len(areq.faults) = 2 /\ areq.faults[2] \in InvalidAnswers) =>
               areq.http = 422
        /\ (Len(areq.faults) = 2
              /\ \A i \in 1..2 : llm_attempt(areq.faults[i]) = "RetryableError") =>
               areq.http = 503

C35_TerminalStable ==
    [][\A r \in RunIds :
          /\ runDoc[r].status \in {"COMPLETED", "FAILED"} =>
                 runDoc'[r].status = runDoc[r].status
          /\ runDoc[r].outcome \in {"PASS", "FAIL"} =>
                 runDoc'[r].outcome = runDoc[r].outcome]_vars

\* C36: every position of the text that lies inside a detection lies inside a detection
\* a token was emitted for, and the clear characters left in the output are as many as
\* the positions outside all detections
C36_NoSpanSurvives ==
    LET n == Len(mask.results)
        covered(p, rs) == \E k \in 1..Len(rs) : rs[k].start <= p /\ p < rs[k].end
        clear == {k \in 1..Len(mask.out) : mask.out[k] \in Alphabet}
        outside == {p \in 0..(Len(mask.text) - 1) : ~covered(p, mask.results)}
    IN mask.pc \in {"out", "again"} =>
        /\ \A p \in 0..(Len(mask.text) - 1) :
               covered(p, mask.results) => covered(p, mask.emitted)
        /\ Cardinality(clear) = Cardinality(outside)

\* C37: a step of an event handler for a run that has no run document leaves the run
\* without a run document, writes no stage record of it and publishes no stage request
\* for it (the steps of POST /run, which change calls, are the ones that may create it)
C37_NoRunNoEffect ==
    [][\A r \in RunIds :
          (runDoc[r].status = "ABSENT" /\ calls' = calls) =>
              /\ runDoc'[r] = runDoc[r]
              /\ stepDoc'[r] = stepDoc[r]
              /\ pubCount'[r] = pubCount[r]]_vars

\* C38: an ingestion record that is PROCESSING is later DONE, FAILED_TRANSIENT or
\* FAILED_PERMANENT, with the notification redelivered as long as it is not
\* acknowledged and handlers that may end without writing an outcome
C38_ProcessingResolves ==
    \A n \in 1..MaxNotes :
        (redel[n].doc.status = "PROCESSING") ~>
            (redel[n].doc.status \in {"DONE", "FAILED_TRANSIENT", "FAILED_PERMANENT"})

\* C39: with executions of one transcribe task that overlap, the artifact store never
\* holds more than one object at the run's transcript path, holds exactly that one
\* object once an execution has saved, and the orchestrator advances transcribe and
\* publishes redact.requested at most once for the run, however many completions are
\* published
C39_OverlapOneArtifact ==
    \A r \in RunIds :
        LET path == artifact_blob_path("transcribe", r)
            at == {o \in dup.store : o.path = path}
        IN /\ Cardinality(at) <= 1
           /\ (\E e \in DOMAIN dup.ex : dup.ex[e].run_id = r /\ dup.ex[e].pc \in {"emit", "done"})
                  => (Cardinality(at) = 1 /\ dup.store = at)
           /\ advances[r]["transcribe"] <= 1
           /\ pubCount[r]["redact"] <= 1

\* both executions missed the cache, transcribed different texts, saved and published,
\* and the orchestrator has handled both completions
C39_Witness ==
    \E r \in RunIds :
        /\ \A e \in 1..MaxExecs :
               dup.ex[e].pc = "done" /\ dup.ex[e].missed /\ dup.ex[e].run_id = r
        /\ dup.ex[1].resp # dup.ex[2].resp
        /\ dup.published = MaxExecs
        /\ dup.pending = 0
        /\ inbox = {}
        /\ advances[r]["transcribe"] = 1
        /\ noops[r]["transcribe"] >= 1
        /\ pubCount[r]["redact"] = 1

\* C40: a POST /redact answered 200 has left artifacts/<k>/redacted.json in the store,
\* k being the key the transcript was read under, and has written no other object
C40_RedactedUnderSameKey ==
    (rreq.pc = "done" /\ rreq.http = 200) =>
        /\ rreq.read = artifact_blob_path("transcribe", rreq.idem_key)
        /\ artifact_blob_path("redact", rreq.idem_key) \in rreq.store
        /\ rreq.store \subseteq {artifact_blob_path("redact", rreq.idem_key)}

====
